---------------------------- MODULE Spec2Model ----------------------------
(***************************************************************************)
(* Model of the go-ratelimit engines: six algorithms (leaky bucket in two  *)
(* modes), each in its in-memory variant and its Redis variant.            *)
(*                                                                         *)
(* Time.  Every instant and duration is an integer number of clock units;  *)
(* there are UnitsPerSec units in a second.  UnitsPerSec is a multiple of  *)
(* the per-second rate, so the emission interval 1/rate and the shaping    *)
(* slot 1/leakRate are whole units.  Real-valued quantities of the code    *)
(* (tokens, level) are kept multiplied by UnitsPerSec, which makes every   *)
(* float64 expression of the code an exact integer expression here.  The   *)
(* RetryAfter of a decision is in milliseconds.                            *)
(* float64 rounding and the %.14g formatting of Lua's tostring are below   *)
(* the resolution of the model's clock.                                    *)
(***************************************************************************)
EXTENDS Integers, Sequences, FiniteSets, TLC

\* ------------------------------------------------------------------ bounds
Limit == 2
WindowSecs == 1
Rate == 1
Sub == 2
MaxTime == 5
MaxN == 3
NumCallers == 3
MaxConcTime == 2
MaxFailTime == 2
MaxStoreTime == 3
MaxCloses == 3
MaxCacheTime == 2
MaxKeys == 1
CacheTTL == 2
MaxIsoTime == 2

\* ----------------------------------------------------------- configuration
Keys == {"k1"}
KeyPrefix == "ratelimit"
Costs == 0 .. MaxN
UnitsPerSec == Rate * Sub

maxRequests == Limit
windowSeconds == WindowSecs
capacity == Limit
refillRate == Rate
leakRate == Rate
rate == Rate
burst == Limit

Algs == {"fixedWindow", "slidingWindow", "slidingWindowCounter",
         "tokenBucket", "leakyPolicing", "leakyShaping", "gcra"}
WindowAlgs == {"fixedWindow", "slidingWindow", "slidingWindowCounter"}

\* Options.LimitFunc: nil, or a function of the key
NoLimitFunc == [isNil |-> TRUE, fn |-> [k \in Keys |-> 0]]
LimitFuncVals == {0 - 1, 0, 1, Limit + 1}
LimitFuncs == {NoLimitFunc} \cup
              {[isNil |-> FALSE, fn |-> [k \in Keys |-> v]] : v \in LimitFuncVals}

NoState == [absent |-> TRUE]
NoTime == 0 - 1
NoReq == [key |-> "none", n |-> 0, at |-> 0, afterReset |-> "no"]
NoRes == [allowed |-> FALSE, remaining |-> 0, limit |-> 0,
          retryAfter |-> 0, resetAt |-> NoTime, served |-> FALSE]

\* ----------------------------------------------------------------- helpers
Max(a, b) == IF a >= b THEN a ELSE b
Min(a, b) == IF a <= b THEN a ELSE b
Floor(a, b) == a \div b
Ceil(a, b) == 0 - ((0 - a) \div b)
Second == UnitsPerSec
\* a time.Duration is reported in whole milliseconds
Millis(d) == (d * 1000) \div UnitsPerSec
Secs(s) == s * 1000
windowDuration == windowSeconds * Second

Result(allowed, remaining, limit, retryAfter, resetAt) ==
    [allowed |-> allowed, remaining |-> remaining, limit |-> limit,
     retryAfter |-> retryAfter, resetAt |-> resetAt, served |-> TRUE]

Out(states, res) == [states |-> states, res |-> res]

resolveLimit(lf, key, defaultLimit) ==
    IF ~lf.isNil /\ lf.fn[key] > 0 THEN lf.fn[key] ELSE defaultLimit

\* ------------------------------------------------ fixed window, in memory
fwAdmitsOffByOne(requests, cost, maxReq) == requests + cost <= maxReq + 1
fwAdmits(requests, cost, maxReq) == requests + cost <= maxReq

fwRolledLate(state, now) ==
    IF now - state.windowStart > windowDuration
    THEN [requests |-> 0, windowStart |-> now]
    ELSE state
fwRolled(state, now) ==
    IF now - state.windowStart >= windowDuration
    THEN [requests |-> 0, windowStart |-> now]
    ELSE state

fixedWindowMemoryAllowN(states, lf, key, n, now) ==
    LET maxReq == resolveLimit(lf, key, maxRequests)
        state0 == IF states[key] = NoState
                  THEN [requests |-> 0, windowStart |-> now]
                  ELSE states[key]
        state == fwRolled(state0, now)
        resetAt == state.windowStart + windowDuration
    IN  IF fwAdmits(state.requests, n, maxReq)
        THEN LET st2 == [state EXCEPT !.requests = @ + n]
             IN  Out([states EXCEPT ![key] = st2],
                     Result(TRUE, maxReq - st2.requests, maxReq, 0, resetAt))
        ELSE Out([states EXCEPT ![key] = state],
                 Result(FALSE, 0, maxReq, Millis(Max(0, resetAt - now)), resetAt))

\* --------------------------------------------- sliding window log, in memory
RECURSIVE swCutoff(_, _, _)
swCutoff(ts, now, cutoff) ==
    IF cutoff < Len(ts) /\ now - ts[cutoff + 1] > windowDuration
    THEN swCutoff(ts, now, cutoff + 1)
    ELSE cutoff

swEvictEarly(ts, now) == SelectSeq(ts, LAMBDA t : now - t < windowDuration - 1)
swEvict(ts, now) == SubSeq(ts, swCutoff(ts, now, 0) + 1, Len(ts))

RECURSIVE swAppend(_, _, _)
swAppend(ts, now, n) == IF n <= 0 THEN ts ELSE swAppend(Append(ts, now), now, n - 1)

slidingWindowMemoryAllowN(states, lf, key, n, now) ==
    LET state0 == IF states[key] = NoState THEN [timestamps |-> <<>>] ELSE states[key]
        ts == swEvict(state0.timestamps, now)
    IN  IF Len(ts) + n <= maxRequests
        THEN LET ts2 == swAppend(ts, now, n)
             IN  Out([states EXCEPT ![key] = [timestamps |-> ts2]],
                     Result(TRUE, maxRequests - Len(ts2), maxRequests, 0, NoTime))
        ELSE LET retryAfter == IF Len(ts) > 0
                               THEN Millis(Max(0, ts[1] + windowDuration - now))
                               ELSE 0
             IN  Out([states EXCEPT ![key] = [timestamps |-> ts]],
                     Result(FALSE, 0, maxRequests, retryAfter, NoTime))

\* ----------------------------------------- sliding window counter, in memory
RECURSIVE swcAdvance(_, _)
swcAdvance(state, now) ==
    IF now - state.windowStart >= windowDuration
    THEN swcAdvance([windowStart |-> state.windowStart + windowDuration,
                     previousCount |-> state.currentCount,
                     currentCount |-> 0], now)
    ELSE state

\* remaining = max(0, floor(maxRequests - (prev*(1-elapsed/W) + count))),
\* with every term multiplied by the window length w
swcRemaining(prev, elapsed, w, count) ==
    Max(0, Floor(maxRequests * w - prev * (w - elapsed) - count * w, w))

\* estimatedCount + cost <= maxRequests, multiplied by w
swcFits(prev, elapsed, w, count, cost) ==
    prev * (w - elapsed) + (count + cost) * w <= maxRequests * w

slidingWindowCounterMemoryAllowN(states, lf, key, n, now) ==
    LET state0 == IF states[key] = NoState
                  THEN [windowStart |-> now, previousCount |-> 0, currentCount |-> 0]
                  ELSE states[key]
        state == swcAdvance(state0, now)
        elapsed == now - state.windowStart
    IN  IF swcFits(state.previousCount, elapsed, windowDuration, state.currentCount, n)
        THEN LET st2 == [state EXCEPT !.currentCount = @ + n]
             IN  Out([states EXCEPT ![key] = st2],
                     Result(TRUE,
                            swcRemaining(state.previousCount, elapsed, windowDuration,
                                         st2.currentCount),
                            maxRequests, 0, NoTime))
        ELSE LET secs == Ceil(windowSeconds * (windowDuration - elapsed), windowDuration)
             IN  Out([states EXCEPT ![key] = state],
                     Result(FALSE, 0, maxRequests, Secs(Max(secs, 1)), NoTime))

\* ---------------------------------------------------- token bucket, in memory
\* tokens are kept multiplied by UnitsPerSec: elapsed seconds * refillRate is
\* (now - lastRefill) * refillRate in that scale
tbRefillUncapped(tokens, elapsed) == tokens + elapsed * refillRate
tbRefill(tokens, elapsed) ==
    Min(capacity * UnitsPerSec, tokens + elapsed * refillRate)

\* the tokens a denied request leaves in the bucket: the refilled amount
tbDeniedDrained(tokens, cost) == 0
tbDenied(tokens, cost) == tokens

tokenBucketMemoryAllowN(states, lf, key, n, now) ==
    LET state0 == IF states[key] = NoState
                  THEN [tokens |-> capacity * UnitsPerSec, lastRefill |-> now]
                  ELSE states[key]
        tokens == tbRefill(state0.tokens, now - state0.lastRefill)
        cost == n * UnitsPerSec
    IN  IF tokens >= cost
        THEN Out([states EXCEPT ![key] = [tokens |-> tokens - cost, lastRefill |-> now]],
                 Result(TRUE, Floor(tokens - cost, UnitsPerSec), capacity, 0, NoTime))
        ELSE Out([states EXCEPT ![key] = [tokens |-> tbDenied(tokens, cost),
                                           lastRefill |-> now]],
                 Result(FALSE, 0, capacity,
                        Secs(Ceil(cost - tokens, refillRate * UnitsPerSec)), NoTime))

\* ---------------------------------------------------- leaky bucket, in memory
\* level is kept multiplied by UnitsPerSec
getState(states, key, now) ==
    IF states[key] = NoState
    THEN [level |-> 0, lastLeak |-> now, nextFree |-> now]
    ELSE states[key]

allowPolicing(states, key, n, now) ==
    LET state == getState(states, key, now)
        leaked == (now - state.lastLeak) * leakRate
        level == Max(0, state.level - leaked)
        cost == n * UnitsPerSec
    IN  IF level + cost <= capacity * UnitsPerSec
        THEN Out([states EXCEPT ![key] =
                      [state EXCEPT !.level = level + cost, !.lastLeak = now]],
                 Result(TRUE,
                        Max(0, Floor(capacity * UnitsPerSec - (level + cost), UnitsPerSec)),
                        capacity, 0, NoTime))
        ELSE Out([states EXCEPT ![key] =
                      [state EXCEPT !.level = level, !.lastLeak = now]],
                 Result(FALSE, 0, capacity, Secs(Ceil(n, leakRate)), NoTime))

\* queueDepth + cost <= capacity, multiplied by UnitsPerSec
shapingFitsOneMore(delayDuration, n) ==
    delayDuration * leakRate + n * UnitsPerSec <= (capacity + 1) * UnitsPerSec
shapingFits(delayDuration, n) ==
    delayDuration * leakRate + n * UnitsPerSec <= capacity * UnitsPerSec

allowShaping(states, key, n, now) ==
    LET state0 == getState(states, key, now)
        nextFree == IF state0.nextFree < now THEN now ELSE state0.nextFree
        delayDuration == nextFree - now
        state == [state0 EXCEPT !.nextFree = nextFree]
    IN  IF shapingFits(delayDuration, n)
        THEN Out([states EXCEPT ![key] =
                      [state EXCEPT !.nextFree = nextFree + (n * UnitsPerSec) \div leakRate]],
                 Result(TRUE,
                        Max(0, Floor(capacity * UnitsPerSec
                                       - (delayDuration * leakRate + n * UnitsPerSec),
                                     UnitsPerSec)),
                        capacity, Millis(delayDuration), NoTime))
        ELSE Out([states EXCEPT ![key] = state],
                 Result(FALSE, 0, capacity, 0, NoTime))

leakyBucketMemoryAllowN(mode, states, lf, key, n, now) ==
    IF mode = "leakyShaping"
    THEN allowShaping(states, key, n, now)
    ELSE allowPolicing(states, key, n, now)

\* ------------------------------------------------------------ GCRA, in memory
emissionInterval == UnitsPerSec \div rate
burstAllowance == (burst - 1) * emissionInterval

gcraConformsLate(diff) == diff <= burstAllowance + 2 * emissionInterval
gcraConformsStrictly(diff) == diff < burstAllowance + emissionInterval
gcraConforms(diff) == diff <= burstAllowance + emissionInterval

gcraRemaining(diff) ==
    Floor(burstAllowance - diff + emissionInterval, emissionInterval)

gcraMemoryAllowN(states, lf, key, n, now) ==
    LET state == IF states[key] = NoState THEN [tat |-> 0] ELSE states[key]
        tat == Max(state.tat, now)
        newTAT == tat + emissionInterval * n
        diff == newTAT - now
    IN  IF gcraConforms(diff)
        THEN Out([states EXCEPT ![key] = [tat |-> newTAT]],
                 Result(TRUE, gcraRemaining(diff), burst, 0, NoTime))
        ELSE Out([states EXCEPT ![key] = state],
                 Result(FALSE, 0, burst,
                        Secs(Ceil(diff - burstAllowance, UnitsPerSec)), NoTime))

\* --------------------------------------------------- the in-memory dispatcher
MemoryAllowN(a, states, lf, key, n, now) ==
    CASE a = "fixedWindow" -> fixedWindowMemoryAllowN(states, lf, key, n, now)
      [] a = "slidingWindow" -> slidingWindowMemoryAllowN(states, lf, key, n, now)
      [] a = "slidingWindowCounter" -> slidingWindowCounterMemoryAllowN(states, lf, key, n, now)
      [] a = "tokenBucket" -> tokenBucketMemoryAllowN(states, lf, key, n, now)
      [] a = "gcra" -> gcraMemoryAllowN(states, lf, key, n, now)
      [] OTHER -> leakyBucketMemoryAllowN(a, states, lf, key, n, now)

MemoryResetKeeps(states, key) == states
MemoryResetAll(states, key) == [k \in DOMAIN states |-> NoState]
MemoryReset(states, key) == [states EXCEPT ![key] = NoState]

\* ------------------------------------------------------------ the Redis store
\* db maps each live storage key to [val, exp]; exp is the instant the key
\* expires at, or NoTime.  Expired keys are removed as the clock advances.
\* srv is the server's clock when a command or script executes; the now of a
\* script is the instant its caller read the clock.
EmptyDb == [x \in {} |-> 0]

VARIABLE hashTag        \* Options.HashTag

FormatKey(key) ==
    IF hashTag THEN <<KeyPrefix, ":{", key, "}">> ELSE <<KeyPrefix, ":", key>>
FormatKeyIndex(key, index) == <<KeyPrefix, ":", key, ":", index>>

Exists(db, k) == k \in DOMAIN db
Put(db, k, v, exp) ==
    [x \in DOMAIN db \cup {k} |-> IF x = k THEN [val |-> v, exp |-> exp] ELSE db[x]]
ExpOf(db, k) == IF Exists(db, k) THEN db[k].exp ELSE NoTime
DelOne(db, ks) ==
    IF ks \cap DOMAIN db = {} THEN db
    ELSE LET k == CHOOSE x \in ks \cap DOMAIN db : TRUE
         IN  [x \in DOMAIN db \ {k} |-> db[x]]
Del(db, ks) == [x \in DOMAIN db \ ks |-> db[x]]
Get(db, k) == db[k].val
IncrBy(db, k, n) ==
    Put(db, k, (IF Exists(db, k) THEN db[k].val ELSE 0) + n, ExpOf(db, k))
ExpireNever(db, k, secs, srv) == db
Expire(db, k, secs, srv) ==
    IF Exists(db, k) THEN Put(db, k, db[k].val, srv + secs * Second) ELSE db
TTL(db, k, srv) ==
    IF ~Exists(db, k) THEN 0 - 2
    ELSE IF db[k].exp = NoTime THEN 0 - 1
    ELSE (Millis(db[k].exp - srv) + 500) \div 1000
Purge(db, now) ==
    [x \in {y \in DOMAIN db : db[y].exp = NoTime \/ db[y].exp > now} |-> db[x]]

\* sorted sets: the value is the ascending sequence of the members' scores
\* (members are "<now>:<rand.Int63()>", taken to be distinct)
RECURSIVE ZInsert(_, _)
ZInsert(z, score) ==
    IF z = <<>> \/ score < z[1] THEN <<score>> \o z
    ELSE <<z[1]>> \o ZInsert(Tail(z), score)
ZCard(db, k) == IF Exists(db, k) THEN Len(db[k].val) ELSE 0
ZAdd(db, k, score) ==
    Put(db, k, ZInsert(IF Exists(db, k) THEN db[k].val ELSE <<>>, score), ExpOf(db, k))
ZRemRangeByScore(db, k, lo, hi) ==
    IF ~Exists(db, k) THEN db
    ELSE LET z == db[k].val
             kept == SelectSeq(z, LAMBDA sc : ~(lo <= sc /\ sc <= hi))
         IN  IF kept = <<>> THEN Del(db, {k}) ELSE Put(db, k, kept, db[k].exp)

\* ----------------------------------------------------- fixed window on Redis
ScriptOut(db, ret) == [db |-> db, ret |-> ret]

fixedWindowScript(srv, db, key, max_requests, window_seconds, cost) ==
    LET count == IF Exists(db, key) THEN Get(db, key) ELSE 0
    IN  IF count + cost <= max_requests
        THEN LET db1 == IncrBy(db, key, cost)
                 new_count == db1[key].val
                 db2 == IF new_count = cost /\ count = 0
                        THEN Expire(db1, key, window_seconds, srv)
                        ELSE db1
             IN  ScriptOut(db2, <<1, max_requests - new_count, TTL(db2, key, srv)>>)
        ELSE LET ttl == TTL(db, key, srv)
             IN  ScriptOut(db, <<0, 0, IF ttl < 0 THEN window_seconds ELSE ttl>>)

fwRetryAfterAlways(allowed, ttlSec) == Secs(ttlSec)
fwRetryAfter(allowed, ttlSec) == IF ~allowed THEN Secs(ttlSec) ELSE 0

fixedWindowRedisAllowN(srv, db, lf, key, n) ==
    LET fullKey == FormatKey(key)
        maxReq == resolveLimit(lf, key, maxRequests)
        out == fixedWindowScript(srv, db, fullKey, maxReq, windowSeconds, n)
        allowed == out.ret[1] = 1
        ttlSec == out.ret[3]
    IN  Out(out.db, Result(allowed, out.ret[2], maxReq,
                           fwRetryAfter(allowed, ttlSec), srv + ttlSec * Second))

\* ------------------------------------------------ sliding window log on Redis
\* the commands of one AllowN, in the order the client issues them
swRedisEvict(db, fullKey, now) ==
    ZRemRangeByScore(db, fullKey, 0, now - windowSeconds * Second)

RECURSIVE swRedisZAddN(_, _, _, _)
swRedisZAddN(db, fullKey, now, n) ==
    IF n <= 0 THEN db ELSE swRedisZAddN(ZAdd(db, fullKey, now), fullKey, now, n - 1)

swRedisInsert(srv, db, fullKey, n, now) ==
    Expire(swRedisZAddN(db, fullKey, now, n), fullKey, windowSeconds, srv)

swRedisAllowed(count, n) == Result(TRUE, maxRequests - count - n, maxRequests, 0, NoTime)

swRedisDenied(db, fullKey, now) ==
    LET oldest == IF Exists(db, fullKey) THEN db[fullKey].val ELSE <<>>
        retryMs == IF Len(oldest) > 0
                   THEN Millis(oldest[1] + windowSeconds * Second - now)
                   ELSE 0
        retryAfter == IF retryMs > 0 /\ retryMs <= windowSeconds * 1000
                      THEN retryMs
                      ELSE Secs(windowSeconds)
    IN  Result(FALSE, 0, maxRequests, retryAfter, NoTime)

slidingWindowRedisAllowN(srv, db, lf, key, n, now) ==
    LET fullKey == FormatKey(key)
        db1 == swRedisEvict(db, fullKey, now)
        count == ZCard(db1, fullKey)
    IN  IF count + n <= maxRequests
        THEN Out(swRedisInsert(srv, db1, fullKey, n, now), swRedisAllowed(count, n))
        ELSE Out(db1, swRedisDenied(db1, fullKey, now))

\* -------------------------------------------- sliding window counter on Redis
\* now is time.Now().Unix(): whole seconds
Unix(now) == now \div UnitsPerSec
swcCurrentKey(key, nowSec) == FormatKeyIndex(key, nowSec \div windowSeconds)
swcPreviousKey(key, nowSec) == FormatKeyIndex(key, nowSec \div windowSeconds - 1)
swcCount(db, k) == IF Exists(db, k) THEN Get(db, k) ELSE 0

swcRedisDenied(nowSec) ==
    LET secs == Ceil(windowSeconds * (windowSeconds - (nowSec % windowSeconds)),
                     windowSeconds)
    IN  Result(FALSE, 0, maxRequests, Secs(Min(Max(secs, 1), windowSeconds)), NoTime)

swcRedisIncr(db, key, n, nowSec) ==
    LET currentKey == swcCurrentKey(key, nowSec)
        db1 == IncrBy(db, currentKey, n)
    IN  db1

swcRedisExpire(srv, db, key, nowSec) ==
    Expire(db, swcCurrentKey(key, nowSec), windowSeconds * 2, srv)

slidingWindowCounterRedisAllowN(srv, db, lf, key, n, now) ==
    LET nowSec == Unix(now)
        elapsed == nowSec % windowSeconds
        prevCount == swcCount(db, swcPreviousKey(key, nowSec))
        currentCount == swcCount(db, swcCurrentKey(key, nowSec))
    IN  IF ~swcFits(prevCount, elapsed, windowSeconds, currentCount, n)
        THEN Out(db, swcRedisDenied(nowSec))
        ELSE LET db1 == swcRedisIncr(db, key, n, nowSec)
                 newCount == db1[swcCurrentKey(key, nowSec)].val
                 db2 == IF newCount = n THEN swcRedisExpire(srv, db1, key, nowSec) ELSE db1
             IN  Out(db2, Result(TRUE,
                                 swcRemaining(prevCount, elapsed, windowSeconds, newCount),
                                 maxRequests, 0, NoTime))

slidingWindowCounterRedisReset(db, key, now) ==
    Del(db, {swcCurrentKey(key, Unix(now)), swcPreviousKey(key, Unix(now))})

\* ----------------------------------------------------- token bucket on Redis
tokenBucketScript(srv, db, key, max_tokens, refill_rate, now, cost) ==
    LET tokens0 == IF Exists(db, key) THEN Get(db, key).tokens ELSE max_tokens * UnitsPerSec
        last_refill == IF Exists(db, key) THEN Get(db, key).last_refill ELSE now
        elapsed == now - last_refill
        tokens == Min(max_tokens * UnitsPerSec, tokens0 + elapsed * refill_rate)
        allowed == tokens >= cost * UnitsPerSec
        tokens2 == IF allowed THEN tokens - cost * UnitsPerSec ELSE tokens
        retry_after == IF allowed THEN 0
                       ELSE Ceil(cost * UnitsPerSec - tokens, refill_rate * UnitsPerSec)
        db1 == Put(db, key, [tokens |-> tokens2, last_refill |-> now], ExpOf(db, key))
        db2 == Expire(db1, key, Ceil(max_tokens, refill_rate) + 1, srv)
    IN  ScriptOut(db2, <<IF allowed THEN 1 ELSE 0, Floor(tokens2, UnitsPerSec), retry_after>>)

tokenBucketRedisAllowN(srv, db, lf, key, n, now) ==
    LET fullKey == <<KeyPrefix, ":", key>>
        out == tokenBucketScript(srv, db, fullKey, capacity, refillRate, now, n)
    IN  Out(out.db, Result(out.ret[1] = 1, out.ret[2], capacity, Secs(out.ret[3]), NoTime))

\* ----------------------------------------------------- leaky bucket on Redis
luaPolicing(srv, db, key, cap, leak_rate, now, cost) ==
    LET level0 == IF Exists(db, key) THEN Get(db, key).level ELSE 0
        last_leak == IF Exists(db, key) THEN Get(db, key).last_leak ELSE now
        leaked == (now - last_leak) * leak_rate
        level == Max(0, level0 - leaked)
        allowed == level + cost * UnitsPerSec <= cap * UnitsPerSec
        level2 == IF allowed THEN level + cost * UnitsPerSec ELSE level
        remaining == Max(0, Floor(cap * UnitsPerSec - level2, UnitsPerSec))
        retry_after == IF allowed THEN 0 ELSE Ceil(cost, leak_rate)
        db1 == Put(db, key, [level |-> level2, last_leak |-> now], ExpOf(db, key))
        db2 == Expire(db1, key, Ceil(cap, leak_rate) + 1, srv)
    IN  ScriptOut(db2, <<IF allowed THEN 1 ELSE 0, remaining, retry_after>>)

luaShaping(srv, db, key, cap, leak_rate, now, cost) ==
    LET next_free0 == IF Exists(db, key) THEN Get(db, key).next_free ELSE now
        next_free == IF next_free0 < now THEN now ELSE next_free0
        delay == next_free - now
        queue_depth == delay * leak_rate
        allowed == queue_depth + cost * UnitsPerSec <= cap * UnitsPerSec
        delay_ms == IF allowed THEN Millis(delay) ELSE 0
        next_free2 == IF allowed THEN next_free + (cost * UnitsPerSec) \div leak_rate
                      ELSE next_free
        queue_depth2 == IF allowed THEN queue_depth + cost * UnitsPerSec ELSE queue_depth
        remaining == Max(0, Floor(cap * UnitsPerSec - queue_depth2, UnitsPerSec))
        db1 == Put(db, key, [next_free |-> next_free2], ExpOf(db, key))
        db2 == Expire(db1, key, Ceil(cap, leak_rate) + 1, srv)
    IN  ScriptOut(db2, <<IF allowed THEN 1 ELSE 0, remaining, delay_ms>>)

leakyBucketRedisAllowN(mode, srv, db, lf, key, n, now) ==
    LET fullKey == <<KeyPrefix, ":", key>>
        out == IF mode = "leakyShaping"
               THEN luaShaping(srv, db, fullKey, capacity, leakRate, now, n)
               ELSE luaPolicing(srv, db, fullKey, capacity, leakRate, now, n)
        allowed == out.ret[1] = 1
        retryAfter == IF mode = "leakyPolicing" /\ ~allowed THEN Secs(out.ret[3])
                      ELSE IF mode = "leakyShaping" /\ allowed THEN out.ret[3]
                      ELSE 0
    IN  Out(out.db, Result(allowed, out.ret[2], capacity, retryAfter, NoTime))

\* ------------------------------------------------------------- GCRA on Redis
gcraScript(srv, db, key, emission_interval, burst_allowance, now, increment) ==
    LET tat == Max(IF Exists(db, key) THEN Get(db, key) ELSE now, now)
        new_tat == tat + increment
        diff == new_tat - now
    IN  IF diff <= burst_allowance + emission_interval
        THEN LET db1 == Put(db, key, new_tat, NoTime)
                 db2 == Expire(db1, key,
                               Ceil(burst_allowance + emission_interval, UnitsPerSec) + 1, srv)
             IN  ScriptOut(db2, <<1, Floor(burst_allowance - diff + emission_interval,
                                           emission_interval), 0>>)
        ELSE ScriptOut(db, <<0, 0, Ceil(diff - burst_allowance, UnitsPerSec)>>)

gcraRedisAllowN(srv, db, lf, key, n, now) ==
    LET fullKey == <<KeyPrefix, ":", key>>
        out == gcraScript(srv, db, fullKey, emissionInterval, burstAllowance, now,
                          emissionInterval * n)
    IN  Out(out.db, Result(out.ret[1] = 1, out.ret[2], burst, Secs(out.ret[3]), NoTime))

\* ------------------------------------------------------ the Redis dispatcher
RedisAllowN(a, srv, db, lf, key, n, now) ==
    CASE a = "fixedWindow" -> fixedWindowRedisAllowN(srv, db, lf, key, n)
      [] a = "slidingWindow" -> slidingWindowRedisAllowN(srv, db, lf, key, n, now)
      [] a = "slidingWindowCounter" -> slidingWindowCounterRedisAllowN(srv, db, lf, key, n, now)
      [] a = "tokenBucket" -> tokenBucketRedisAllowN(srv, db, lf, key, n, now)
      [] a = "gcra" -> gcraRedisAllowN(srv, db, lf, key, n, now)
      [] OTHER -> leakyBucketRedisAllowN(a, srv, db, lf, key, n, now)

RedisReset(a, db, key, now) ==
    IF a = "slidingWindowCounter"
    THEN slidingWindowCounterRedisReset(db, key, now)
    ELSE IF a \in {"fixedWindow", "slidingWindow"} THEN Del(db, {FormatKey(key)})
    ELSE Del(db, {<<KeyPrefix, ":", key>>})

\* the seconds a script passes to EXPIRE
scriptTTL(a) ==
    CASE a = "fixedWindow" -> windowSeconds
      [] a = "tokenBucket" -> Ceil(capacity, refillRate) + 1
      [] a \in {"leakyPolicing", "leakyShaping"} -> Ceil(capacity, leakRate) + 1
      [] a = "gcra" -> Ceil(burstAllowance + emissionInterval, UnitsPerSec) + 1
      [] OTHER -> 0

\* ------------------------------------------------ a Redis command that fails
ErrKinds == {"transient", "semantic", "deadline"}
\* the commands one AllowN issues
Commands(a) ==
    CASE a = "slidingWindow" -> {"ZREMRANGEBYSCORE", "ZCARD", "EXEC", "ZRANGE"}
      [] a = "slidingWindowCounter" -> {"GET previous", "GET current", "INCRBY", "EXPIRE"}
      [] OTHER -> {"EVALSHA"}

\* AllowN's return on an error it handles
failResult(fo, db, limit, e) ==
    [states |-> db,
     res |-> IF fo THEN Result(TRUE, limit - 1, limit, 0, NoTime)
                   ELSE Result(FALSE, 0, limit, 0, NoTime),
     err |-> IF fo THEN "nil" ELSE e,
     hit |-> TRUE]
\* AllowN's return when it handled no error; hit: a command failed all the same
passResult(o, hit) == [states |-> o.states, res |-> o.res, err |-> "nil", hit |-> hit]

\* AllowN when command cmd, if the call comes to issue it, fails with error e
\* and leaves the store as it was
slidingWindowRedisFailing(fo, cmd, e, srv, db, lf, key, n, now) ==
    LET fullKey == FormatKey(key)
        db1 == swRedisEvict(db, fullKey, now)
        count == ZCard(db1, fullKey)
        fits == count + n <= maxRequests
    IN  CASE cmd = "ZREMRANGEBYSCORE" -> failResult(fo, db, maxRequests, e)
          [] cmd = "ZCARD" -> failResult(fo, db1, maxRequests, e)
          [] cmd = "EXEC" /\ fits -> failResult(fo, db1, maxRequests, e)
          [] cmd = "ZRANGE" /\ ~fits ->
                passResult(Out(db1, Result(FALSE, 0, maxRequests,
                                           Secs(windowSeconds), NoTime)), TRUE)
          [] OTHER -> passResult(slidingWindowRedisAllowN(srv, db, lf, key, n, now), FALSE)

slidingWindowCounterRedisFailing(fo, cmd, e, srv, db, lf, key, n, now) ==
    LET nowSec == Unix(now)
        elapsed == nowSec % windowSeconds
        prevCount == swcCount(db, swcPreviousKey(key, nowSec))
        currentCount == swcCount(db, swcCurrentKey(key, nowSec))
        fits == swcFits(prevCount, elapsed, windowSeconds, currentCount, n)
        db1 == swcRedisIncr(db, key, n, nowSec)
        newCount == db1[swcCurrentKey(key, nowSec)].val
    IN  CASE cmd \in {"GET previous", "GET current"} -> failResult(fo, db, maxRequests, e)
          [] cmd = "INCRBY" /\ fits -> failResult(fo, db, maxRequests, e)
          [] cmd = "EXPIRE" /\ fits /\ newCount = n ->
                passResult(Out(db1, Result(TRUE,
                                           swcRemaining(prevCount, elapsed,
                                                        windowSeconds, newCount),
                                           maxRequests, 0, NoTime)), TRUE)
          [] OTHER -> passResult(slidingWindowCounterRedisAllowN(srv, db, lf, key, n, now),
                                 FALSE)

RedisAllowNFailing(a, fo, cmd, e, srv, db, lf, key, n, now) ==
    CASE a = "slidingWindow" ->
            slidingWindowRedisFailing(fo, cmd, e, srv, db, lf, key, n, now)
      [] a = "slidingWindowCounter" ->
            slidingWindowCounterRedisFailing(fo, cmd, e, srv, db, lf, key, n, now)
      [] OTHER -> failResult(fo, db, RedisAllowN(a, srv, db, lf, key, n, now).res.limit, e)

\* =================================================================== state
VARIABLES
    alg,        \* the algorithm both engines were constructed for
    limitFunc,  \* Options.LimitFunc
    now,        \* the clock that drives both engines
    states,     \* the in-memory engine's map: key -> state record or NoState
    rdb,        \* the Redis store of the Redis engine
    req,        \* the last request
    memRes,     \* the in-memory engine's decision for req
    redisRes,   \* the Redis engine's decision for req
    admitted,   \* key -> <<instant, units>> the in-memory engine admitted
                \* since the key was last reset, less than a window ago
    justReset,  \* key -> "no", or Reset(key) was the last call for key, at this
                \* instant: "afterDenial" if the call before it was a request
                \* within the limit that both engines denied, else "yes"
    backend,    \* the engine concurrent callers use: "memory" or "redis"
    mu,         \* the in-memory engine's mutex: NoCaller or its holder
    pc,         \* caller -> position in its AllowN
    loc,        \* caller -> the local variables of its AllowN
    out,        \* caller -> the decision its AllowN returned
    twin,       \* a second pair of engines driven beside the first: its
                \* in-memory states, its Redis store, its last decisions, and
                \* whether a call to the first pair was withheld from it
    idle,       \* how long before the last request the request before it was
                \* made, NoTime if there was none
    failOpen,   \* Options.FailOpen
    lc,         \* a LocalCache: its entries by key
    inner,      \* per caller of LocalCache.AllowN: where the call is, its key
                \* and n, and the Result the backend gave it
    look,       \* what the last lookup of LocalCache.AllowN found and decided,
                \* and what the last eviction for capacity removed
    store,      \* the in-process Store: data, closed, and how often closeCh
                \* was closed
    sweeper,    \* the Store's cleanupLoop: where it is, whether a tick waits in
                \* ticker.C, whether it scanned after the store was closed
    reply,      \* what the last call on the Store returned
    calls,      \* the Close calls made so far, and per key whether Expire
                \* with a non-positive duration was the last write to it
    resets,     \* how many Reset calls came since the last AllowN (2: two or
                \* more), and the state the first of them left, aged to now
    b,          \* a Builder: the algorithm selected, its two numeric
                \* parameters, and the backends its options configure
    made,       \* what the last constructor or Build call returned
    fault       \* the Redis command that failed during the last AllowN, if
                \* one did, the kind of its error, and the error AllowN returned

vars == <<alg, limitFunc, now, states, rdb, req, memRes, redisRes, admitted,
          justReset, backend, mu, pc, loc, out, twin, idle,
          failOpen, hashTag, lc, inner, look, store, sweeper, reply, calls, fault, b, made, resets>>
\* the variables only the comparisons of two engine pairs use
aux == <<twin, idle, failOpen, hashTag, lc, inner, look, store, sweeper, reply, calls, fault, b, made, resets>>

Callers == 1 .. NumCallers
NoCaller == 0
NoLoc == [now |-> 0, state |-> NoState, count |-> 0, prevCount |-> 0]

EnginesInit ==
    /\ alg \in Algs
    /\ limitFunc \in LimitFuncs
    /\ now = 0
    /\ states = [k \in Keys |-> NoState]
    /\ rdb = EmptyDb
    /\ req = NoReq
    /\ memRes = NoRes
    /\ redisRes = NoRes
    /\ admitted = [k \in Keys |-> <<>>]
    /\ justReset = [k \in Keys |-> "no"]

CallersIdle ==
    /\ mu = NoCaller
    /\ pc = [c \in Callers |-> "idle"]
    /\ loc = [c \in Callers |-> NoLoc]
    /\ out = [c \in Callers |-> NoRes]

NoTwin == [states |-> [k \in Keys |-> NoState], rdb |-> EmptyDb,
           memRes |-> NoRes, redisRes |-> NoRes, skipped |-> FALSE]
\* ------------------------------------------------------------ construction
AlgoNone == "none"
NewBuilder == [algo |-> AlgoNone, p1 |-> 0, p2 |-> 0, redis |-> FALSE, store |-> FALSE]
NoLimiter == [called |-> FALSE, algo |-> AlgoNone, p1 |-> 0, p2 |-> 0,
              redis |-> FALSE, store |-> FALSE, engine |-> "nil", err |-> FALSE]

\* the constructors' first test
invalidParamsBoth(p1, p2) == p1 <= 0 /\ p2 <= 0
invalidParams(p1, p2) == p1 <= 0 \/ p2 <= 0

\* New<Algorithm>(p1, p2, opts...): the engine returned and whether an
\* error came with it; redis, custom: WithRedis, WithStore are among opts
NewLimiter(algo, p1, p2, redis, custom) ==
    [called |-> TRUE, algo |-> algo, p1 |-> p1, p2 |-> p2,
     redis |-> redis, store |-> custom,
     engine |-> IF invalidParams(p1, p2) THEN "nil"
                ELSE IF redis THEN "redis" ELSE "memory",
     err |-> invalidParams(p1, p2)]

\* Builder.Build
BuilderBuild(bb) ==
    IF bb.algo = AlgoNone
    THEN [called |-> TRUE, algo |-> AlgoNone, p1 |-> bb.p1, p2 |-> bb.p2,
          redis |-> bb.redis, store |-> bb.store, engine |-> "nil", err |-> TRUE]
    ELSE NewLimiter(bb.algo, bb.p1, bb.p2, bb.redis, bb.store)

\* int64(window.Seconds()) of a duration of d clock units
DurationSeconds(d) == IF d >= 0 THEN d \div UnitsPerSec ELSE 0 - ((0 - d) \div UnitsPerSec)

NoFault == [hit |-> FALSE, cmd |-> "none", kind |-> "nil", err |-> "nil"]
\* ------------------------------------------------------ the in-process store
NoEntry == [present |-> FALSE, value |-> 0, zero |-> TRUE, expireAt |-> 0]
NewStore == [data |-> [k \in Keys |-> NoEntry], sorted |-> [k \in Keys |-> <<>>],
             closed |-> FALSE, closeCh |-> 0]
NewSweeper == [pc |-> "select", tick |-> FALSE, late |-> FALSE]
NoReply == [op |-> "none", err |-> "nil", value |-> 0, ttl |-> 0]
NoCalls == [closes |-> 0, doomed |-> [k \in Keys |-> FALSE],
            zdue |-> [k \in Keys |-> NoTime]]
StoreIdle ==
    store = NewStore /\ sweeper = NewSweeper /\ reply = NoReply /\ calls = NoCalls

\* the durations TTL returns for an absent key and for a key without expiry
TTLAbsent == 0 - 2 * Second
TTLNoExpiry == 0 - 1 * Second

\* Store.isExpired at clock reading t
storeIsExpiredAtOrAfter(e, t) == ~e.zero /\ t >= e.expireAt
storeIsExpired(e, t) == ~e.zero /\ t > e.expireAt
storeLive(d, key, t) == d[key].present /\ ~storeIsExpired(d[key], t)

storeGet(d, key, t) ==
    IF ~storeLive(d, key, t)
    THEN [data |-> [d EXCEPT ![key] = NoEntry],
          reply |-> [op |-> "Get", err |-> "ErrKeyNotFound", value |-> 0, ttl |-> 0]]
    ELSE [data |-> d,
          reply |-> [op |-> "Get", err |-> "nil", value |-> d[key].value, ttl |-> 0]]

storeSet(d, key, value, ttl, t) ==
    [d EXCEPT ![key] = [present |-> TRUE, value |-> value, zero |-> ~(ttl > 0),
                        expireAt |-> IF ttl > 0 THEN t + ttl ELSE 0]]

storeIncrBy(d, key, n, t) ==
    IF ~storeLive(d, key, t)
    THEN [d EXCEPT ![key] = [present |-> TRUE, value |-> n, zero |-> TRUE, expireAt |-> 0]]
    ELSE [d EXCEPT ![key].value = @ + n]

storeExpire(d, key, ttl, t) ==
    IF ~d[key].present THEN d
    ELSE [d EXCEPT ![key].zero = FALSE, ![key].expireAt = t + ttl]

storeTTL(d, key, t) ==
    IF ~storeLive(d, key, t)
    THEN [data |-> d, reply |-> [op |-> "TTL", err |-> "nil", value |-> 0, ttl |-> TTLAbsent]]
    ELSE IF d[key].zero
    THEN [data |-> d, reply |-> [op |-> "TTL", err |-> "nil", value |-> 0, ttl |-> TTLNoExpiry]]
    ELSE IF d[key].expireAt - t < 0
    THEN [data |-> [d EXCEPT ![key] = NoEntry],
          reply |-> [op |-> "TTL", err |-> "nil", value |-> 0, ttl |-> TTLAbsent]]
    ELSE [data |-> d,
          reply |-> [op |-> "TTL", err |-> "nil", value |-> 0, ttl |-> d[key].expireAt - t]]

storeEvictExpired(d, t) ==
    [k \in Keys |-> IF d[k].present /\ storeIsExpired(d[k], t) THEN NoEntry ELSE d[k]]

\* Store.ZAdd of a new member and Store.ZCard on the sorted map
storeZAdd(z, key, score) == [z EXCEPT ![key] = ZInsert(@, score)]
storeZCard(z, key) == Len(z[key])

\* Store.Close, under the mutex
storeCloseNot(st) == st
storeCloseAgain(st) == [st EXCEPT !.closed = TRUE, !.closeCh = @ + 1]
storeClose(st) ==
    IF ~st.closed THEN [st EXCEPT !.closed = TRUE, !.closeCh = @ + 1] ELSE st

\* ----------------------------------------------------------- the LocalCache
CacheKeys == {"k1", "k2"}
CacheCallers == 1 .. 2
\* a Result as the cache uses it; RetryAfter is a duration in clock units
NoCached == [allowed |-> FALSE, remaining |-> 0, retryAfter |-> 0]
NoCacheEntry == [present |-> FALSE, result |-> NoCached, localUsed |-> 0, fetchedAt |-> 0]
\* what the wrapped Limiter may answer
InnerResults ==
    {[allowed |-> TRUE, remaining |-> r, retryAfter |-> 0] : r \in {0, Limit}} \cup
    {[allowed |-> FALSE, remaining |-> 0, retryAfter |-> d] : d \in {0, 1, CacheTTL + 1}}
NoCall == [pc |-> "idle", key |-> "k1", n |-> 0, result |-> NoCached]
NoLook == [done |-> FALSE, key |-> "k1", n |-> 0, at |-> 0, entry |-> NoCacheEntry,
           local |-> FALSE, evicted |-> FALSE, evictedAt |-> 0, oldestAt |-> 0]
CacheIdle ==
    /\ lc = [k \in CacheKeys |-> NoCacheEntry]
    /\ inner = [c \in CacheCallers |-> NoCall]
    /\ look = NoLook

\* LocalCache.isExpired at clock reading t
cacheIsExpiredTTL(e, t) == t - e.fetchedAt >= CacheTTL
cacheIsExpired(e, t) ==
    LET ttl == IF ~e.result.allowed /\ e.result.retryAfter > 0
                  /\ e.result.retryAfter < CacheTTL
               THEN e.result.retryAfter
               ELSE CacheTTL
    IN  t - e.fetchedAt >= ttl

\* LocalCache.AllowN answers from the entry without the backend
cacheHitAlways(es, key, n, t) == es[key].present
cacheHit(es, key, n, t) ==
    /\ es[key].present /\ ~cacheIsExpired(es[key], t)
    /\ \/ ~es[key].result.allowed
       \/ es[key].result.remaining - es[key].localUsed >= n

\* the entries after a local answer
cacheServe(es, key, n) ==
    IF es[key].result.allowed THEN [es EXCEPT ![key].localUsed = @ + n] ELSE es

\* the keys evictIfOverCapacity may pick, by the order the map is ranged over
cacheNewest(es) ==
    {k \in CacheKeys : es[k].present /\
        \A j \in CacheKeys : es[j].present => es[k].fetchedAt >= es[j].fetchedAt}
cacheOldest(es) ==
    {k \in CacheKeys : es[k].present /\
        \A j \in CacheKeys : es[j].present => es[k].fetchedAt <= es[j].fetchedAt}
cacheLen(es) == Cardinality({k \in CacheKeys : es[k].present})

cacheEvictExpired(es, t) ==
    [k \in CacheKeys |-> IF es[k].present /\ cacheIsExpired(es[k], t)
                         THEN NoCacheEntry ELSE es[k]]

NoResets == [n |-> 0, states |-> [k \in Keys |-> NoState], rdb |-> EmptyDb,
             had |-> FALSE]
AuxIdle == twin = NoTwin /\ idle = NoTime /\ failOpen = TRUE /\ fault = NoFault
           /\ hashTag = FALSE /\ b = NewBuilder /\ made = NoLimiter /\ resets = NoResets /\ StoreIdle /\ CacheIdle

Init == EnginesInit /\ CallersIdle /\ AuxIdle /\ backend = "both"

\* ------------------------------------------- one driver, both engines in step
\* the admissions that can still share an interval of one window duration
\* with an admission at or after instant t
Recent(adm, t) == SelectSeq(adm, LAMBDA e : e[1] > t - windowDuration)

Tick ==
    /\ now < MaxTime
    /\ now' = now + 1
    /\ rdb' = Purge(rdb, now + 1)
    /\ justReset' = [k \in Keys |-> "no"]
    /\ admitted' = [k \in Keys |-> Recent(admitted[k], now + 1)]
    /\ UNCHANGED <<aux, alg, limitFunc, states, req, memRes, redisRes, backend, mu, pc, loc, out>>

\* the same AllowN(key, n) is issued to the in-memory and to the Redis engine
Serve(a, key, n) ==
    LET m == MemoryAllowN(a, states, limitFunc, key, n, now)
        r == RedisAllowN(a, now, rdb, limitFunc, key, n, now)
    IN  /\ alg = a
        /\ states' = m.states
        /\ rdb' = r.states
        /\ memRes' = m.res
        /\ redisRes' = r.res
        /\ req' = [key |-> key, n |-> n, at |-> now, afterReset |-> justReset[key]]
        /\ admitted' = IF m.res.allowed /\ n > 0
                       THEN [admitted EXCEPT ![key] = Append(@, <<now, n>>)]
                       ELSE admitted
        /\ justReset' = [justReset EXCEPT ![key] = "no"]
        /\ UNCHANGED <<aux, alg, limitFunc, now, backend, mu, pc, loc, out>>

FixedWindowAllowN == \E key \in Keys, n \in Costs : Serve("fixedWindow", key, n)
SlidingWindowAllowN == \E key \in Keys, n \in Costs : Serve("slidingWindow", key, n)
SlidingWindowCounterAllowN ==
    \E key \in Keys, n \in Costs : Serve("slidingWindowCounter", key, n)
TokenBucketAllowN == \E key \in Keys, n \in Costs : Serve("tokenBucket", key, n)
LeakyBucketPolicingAllowN == \E key \in Keys, n \in Costs : Serve("leakyPolicing", key, n)
LeakyBucketShapingAllowN == \E key \in Keys, n \in Costs : Serve("leakyShaping", key, n)
GCRAAllowN == \E key \in Keys, n \in Costs : Serve("gcra", key, n)

Reset ==
    \E key \in Keys :
        /\ states' = MemoryReset(states, key)
        /\ rdb' = RedisReset(alg, rdb, key, now)
        /\ admitted' = [admitted EXCEPT ![key] = <<>>]
        /\ justReset' = [justReset EXCEPT ![key] =
                              IF /\ req.key = key /\ memRes.served /\ redisRes.served
                                 /\ ~memRes.allowed /\ ~redisRes.allowed
                                 /\ req.n <= memRes.limit /\ req.n <= redisRes.limit
                              THEN "afterDenial"
                              ELSE "yes"]
        /\ UNCHANGED <<aux, alg, limitFunc, now, req, memRes, redisRes, backend, mu, pc, loc, out>>

Next ==
    \/ Tick
    \/ FixedWindowAllowN
    \/ SlidingWindowAllowN
    \/ SlidingWindowCounterAllowN
    \/ TokenBucketAllowN
    \/ LeakyBucketPolicingAllowN
    \/ LeakyBucketShapingAllowN
    \/ GCRAAllowN
    \/ Reset

Spec == Init /\ [][Next]_vars

\* ============================================ concurrent callers, one engine
\* Every caller issues one Allow(key), that is AllowN(key, 1), on TheKey.
TheKey == "k1"
driver == <<req, memRes, redisRes, admitted, justReset>>
config == <<alg, limitFunc, backend>>

InitConc ==
    /\ EnginesInit
    /\ limitFunc.isNil \/ limitFunc.fn[TheKey] = 1
    /\ CallersIdle
    /\ AuxIdle
    /\ backend \in {"memory", "redis"}

\* the clock advances while calls are in flight
TickConc ==
    /\ now < MaxConcTime
    /\ now' = now + 1
    /\ rdb' = Purge(rdb, now + 1)
    /\ UNCHANGED <<config, driver, aux, states, mu, pc, loc, out>>

Goto(c, label) == pc' = [pc EXCEPT ![c] = label]
Return(c, res) == out' = [out EXCEPT ![c] = res] /\ Goto(c, "done")

\* --- in memory: mu.Lock(); state lookup; decision and update; mu.Unlock()
LockTaken(holder) == TRUE
LockFree(holder) == holder = NoCaller

MemLock(c) ==
    /\ backend = "memory" /\ pc[c] = "idle"
    /\ LockFree(mu)
    /\ mu' = c
    /\ Goto(c, "locked")
    /\ UNCHANGED <<config, driver, aux, now, states, rdb, loc, out>>

MemLookup(c) ==
    /\ pc[c] = "locked"
    /\ loc' = [loc EXCEPT ![c].state = states[TheKey], ![c].now = now]
    /\ Goto(c, "found")
    /\ UNCHANGED <<config, driver, aux, now, states, rdb, mu, out>>

MemAllowN(c) ==
    /\ pc[c] = "found"
    /\ LET m == MemoryAllowN(alg, [states EXCEPT ![TheKey] = loc[c].state],
                             limitFunc, TheKey, 1, loc[c].now)
       IN  /\ states' = m.states
           /\ Return(c, m.res)
    /\ mu' = NoCaller
    /\ UNCHANGED <<config, driver, aux, now, rdb, loc>>

\* --- on Redis: the caller reads the clock, then issues its commands
ScriptAlgs == Algs \ {"slidingWindow", "slidingWindowCounter"}

RedisBegin(c) ==
    /\ backend = "redis" /\ pc[c] = "idle"
    /\ loc' = [loc EXCEPT ![c].now = now]
    /\ Goto(c, CASE alg = "slidingWindow" -> "zremrangebyscore"
                 [] alg = "slidingWindowCounter" -> "getprevious"
                 [] OTHER -> "script")
    /\ UNCHANGED <<config, driver, aux, now, states, rdb, mu, out>>

\* fixed window, token bucket, leaky bucket, GCRA: one script
RedisScript(c) ==
    /\ pc[c] = "script"
    /\ LET r == RedisAllowN(alg, now, rdb, limitFunc, TheKey, 1, loc[c].now)
       IN  /\ rdb' = r.states
           /\ Return(c, r.res)
    /\ UNCHANGED <<config, driver, aux, now, states, mu, loc>>

\* sliding window log: ZREMRANGEBYSCORE, ZCARD, then a pipeline or ZRANGE
SwZRemRangeByScore(c) ==
    /\ pc[c] = "zremrangebyscore"
    /\ rdb' = swRedisEvict(rdb, FormatKey(TheKey), loc[c].now)
    /\ Goto(c, "zcard")
    /\ UNCHANGED <<config, driver, aux, now, states, mu, loc, out>>

SwZCard(c) ==
    /\ pc[c] = "zcard"
    /\ LET count == ZCard(rdb, FormatKey(TheKey))
       IN  /\ loc' = [loc EXCEPT ![c].count = count]
           /\ Goto(c, IF count + 1 <= maxRequests THEN "pipeline" ELSE "zrange")
    /\ UNCHANGED <<config, driver, aux, now, states, rdb, mu, out>>

SwPipelineExec(c) ==
    /\ pc[c] = "pipeline"
    /\ rdb' = swRedisInsert(now, rdb, FormatKey(TheKey), 1, loc[c].now)
    /\ Return(c, swRedisAllowed(loc[c].count, 1))
    /\ UNCHANGED <<config, driver, aux, now, states, mu, loc>>

SwZRange(c) ==
    /\ pc[c] = "zrange"
    /\ Return(c, swRedisDenied(rdb, FormatKey(TheKey), loc[c].now))
    /\ UNCHANGED <<config, driver, aux, now, states, rdb, mu, loc>>

\* sliding window counter: GET previous, GET current, INCRBY, EXPIRE
SwcGetPrevious(c) ==
    /\ pc[c] = "getprevious"
    /\ loc' = [loc EXCEPT ![c].prevCount =
                   swcCount(rdb, swcPreviousKey(TheKey, Unix(loc[c].now)))]
    /\ Goto(c, "getcurrent")
    /\ UNCHANGED <<config, driver, aux, now, states, rdb, mu, out>>

SwcGetCurrent(c) ==
    /\ pc[c] = "getcurrent"
    /\ LET nowSec == Unix(loc[c].now)
           currentCount == swcCount(rdb, swcCurrentKey(TheKey, nowSec))
       IN  IF swcFits(loc[c].prevCount, nowSec % windowSeconds, windowSeconds,
                      currentCount, 1)
           THEN Goto(c, "incrby") /\ out' = out
           ELSE Return(c, swcRedisDenied(nowSec))
    /\ UNCHANGED <<config, driver, aux, now, states, rdb, mu, loc>>

SwcIncrBy(c) ==
    /\ pc[c] = "incrby"
    /\ LET nowSec == Unix(loc[c].now)
           db1 == swcRedisIncr(rdb, TheKey, 1, nowSec)
           newCount == db1[swcCurrentKey(TheKey, nowSec)].val
       IN  /\ rdb' = db1
           /\ out' = [out EXCEPT ![c] =
                        Result(TRUE,
                               swcRemaining(loc[c].prevCount, nowSec % windowSeconds,
                                            windowSeconds, newCount),
                               maxRequests, 0, NoTime)]
           /\ Goto(c, IF newCount = 1 THEN "expire" ELSE "done")
    /\ UNCHANGED <<config, driver, aux, now, states, mu, loc>>

SwcExpire(c) ==
    /\ pc[c] = "expire"
    /\ rdb' = swcRedisExpire(now, rdb, TheKey, Unix(loc[c].now))
    /\ Goto(c, "done")
    /\ UNCHANGED <<config, driver, aux, now, states, mu, loc, out>>

NextConc ==
    \/ TickConc
    \/ \E c \in Callers : MemLock(c)
    \/ \E c \in Callers : MemLookup(c)
    \/ \E c \in Callers : MemAllowN(c)
    \/ \E c \in Callers : RedisBegin(c)
    \/ \E c \in Callers : RedisScript(c)
    \/ \E c \in Callers : SwZRemRangeByScore(c)
    \/ \E c \in Callers : SwZCard(c)
    \/ \E c \in Callers : SwPipelineExec(c)
    \/ \E c \in Callers : SwZRange(c)
    \/ \E c \in Callers : SwcGetPrevious(c)
    \/ \E c \in Callers : SwcGetCurrent(c)
    \/ \E c \in Callers : SwcIncrBy(c)
    \/ \E c \in Callers : SwcExpire(c)

SpecConc == InitConc /\ [][NextConc]_vars

\* ============================ an engine pair spared the oversized requests
\* Every AllowN goes to the engines; the twin pair, of the same algorithm and
\* configuration, gets the same calls except those for more than the limit.
TwinTick ==
    /\ now < MaxTime
    /\ now' = now + 1
    /\ rdb' = Purge(rdb, now + 1)
    /\ twin' = [twin EXCEPT !.rdb = Purge(@, now + 1)]
    /\ UNCHANGED <<config, driver, states, mu, pc, loc, out, idle, failOpen, hashTag, lc, inner, look, store, sweeper, reply, calls, fault,
                       b, made, resets>>

OversizeAllowN ==
    \E key \in Keys, n \in Costs :
        LET m == MemoryAllowN(alg, states, limitFunc, key, n, now)
            r == RedisAllowN(alg, now, rdb, limitFunc, key, n, now)
            tm == MemoryAllowN(alg, twin.states, limitFunc, key, n, now)
            tr == RedisAllowN(alg, now, twin.rdb, limitFunc, key, n, now)
        IN  /\ states' = m.states
            /\ rdb' = r.states
            /\ memRes' = m.res
            /\ redisRes' = r.res
            /\ req' = [key |-> key, n |-> n, at |-> now, afterReset |-> "no"]
            /\ twin' = IF n > m.res.limit
                       THEN [twin EXCEPT !.skipped = TRUE]
                       ELSE [twin EXCEPT !.states = tm.states, !.rdb = tr.states,
                                         !.memRes = tm.res, !.redisRes = tr.res]
            /\ UNCHANGED <<config, now, admitted, justReset, mu, pc, loc, out, idle, failOpen, hashTag, lc, inner, look, store, sweeper, reply, calls, fault,
                       b, made, resets>>

NextOversize == TwinTick \/ OversizeAllowN

SpecOversize == Init /\ [][NextOversize]_vars

\* ================================================ requests after idle time
\* Requests on one key of a fixed window or sliding window counter engine
\* pair; idle records the time since the request before.
IdleAllowN ==
    \E key \in Keys, n \in Costs :
        LET m == MemoryAllowN(alg, states, limitFunc, key, n, now)
            r == RedisAllowN(alg, now, rdb, limitFunc, key, n, now)
        IN  /\ alg \in {"fixedWindow", "slidingWindowCounter"}
            /\ states' = m.states
            /\ rdb' = r.states
            /\ memRes' = m.res
            /\ redisRes' = r.res
            /\ req' = [key |-> key, n |-> n, at |-> now, afterReset |-> "no"]
            /\ idle' = IF memRes.served THEN now - req.at ELSE NoTime
            /\ UNCHANGED <<config, now, admitted, justReset, mu, pc, loc, out, twin, failOpen, hashTag, lc, inner, look, store, sweeper, reply, calls, fault,
                       b, made, resets>>

NextIdle == Tick \/ IdleAllowN

SpecIdle == Init /\ [][NextIdle]_vars

\* ============================ token bucket beside policing leaky bucket
\* The engines are a token bucket pair; the twin pair is a policing leaky
\* bucket of the same capacity and rate, given the same calls.
InitPair == Init /\ alg = "tokenBucket"

PairAllowN ==
    \E key \in Keys, n \in Costs :
        LET m == MemoryAllowN("tokenBucket", states, limitFunc, key, n, now)
            r == RedisAllowN("tokenBucket", now, rdb, limitFunc, key, n, now)
            tm == MemoryAllowN("leakyPolicing", twin.states, limitFunc, key, n, now)
            tr == RedisAllowN("leakyPolicing", now, twin.rdb, limitFunc, key, n, now)
        IN  /\ states' = m.states
            /\ rdb' = r.states
            /\ memRes' = m.res
            /\ redisRes' = r.res
            /\ req' = [key |-> key, n |-> n, at |-> now, afterReset |-> "no"]
            /\ twin' = [twin EXCEPT !.states = tm.states, !.rdb = tr.states,
                                    !.memRes = tm.res, !.redisRes = tr.res]
            /\ UNCHANGED <<config, now, admitted, justReset, mu, pc, loc, out, idle, failOpen, hashTag, lc, inner, look, store, sweeper, reply, calls, fault,
                       b, made, resets>>

NextPair == TwinTick \/ PairAllowN

SpecPair == InitPair /\ [][NextPair]_vars

\* ===================================================== Redis commands fail
\* One Redis engine; a call runs to its end, or one of its commands fails.
InitFail ==
    /\ EnginesInit /\ CallersIdle
    /\ twin = NoTwin /\ idle = NoTime /\ fault = NoFault
    /\ b = NewBuilder /\ made = NoLimiter /\ resets = NoResets /\ StoreIdle /\ CacheIdle
    /\ failOpen \in BOOLEAN
    /\ hashTag = FALSE
    /\ backend = "redis"

FailTick ==
    /\ now < MaxFailTime
    /\ now' = now + 1
    /\ rdb' = Purge(rdb, now + 1)
    /\ UNCHANGED <<config, driver, states, mu, pc, loc, out, aux>>

RedisAllowNPasses ==
    \E key \in Keys, n \in Costs :
        LET r == RedisAllowN(alg, now, rdb, limitFunc, key, n, now)
        IN  /\ rdb' = r.states
            /\ redisRes' = r.res
            /\ req' = [key |-> key, n |-> n, at |-> now, afterReset |-> "no"]
            /\ fault' = NoFault
            /\ UNCHANGED <<config, now, states, memRes, admitted, justReset,
                           mu, pc, loc, out, twin, idle, failOpen, hashTag, lc, inner, look, store, sweeper, reply, calls,
                           b, made, resets>>

RedisAllowNFails ==
    \E key \in Keys, n \in Costs, cmd \in Commands(alg), e \in ErrKinds :
        LET r == RedisAllowNFailing(alg, failOpen, cmd, e, now, rdb, limitFunc,
                                    key, n, now)
        IN  /\ rdb' = r.states
            /\ redisRes' = r.res
            /\ req' = [key |-> key, n |-> n, at |-> now, afterReset |-> "no"]
            /\ fault' = IF r.hit
                        THEN [hit |-> TRUE, cmd |-> cmd, kind |-> e, err |-> r.err]
                        ELSE NoFault
            /\ UNCHANGED <<config, now, states, memRes, admitted, justReset,
                           mu, pc, loc, out, twin, idle, failOpen, hashTag, lc, inner, look, store, sweeper, reply, calls,
                           b, made, resets>>

NextFail == FailTick \/ RedisAllowNPasses \/ RedisAllowNFails

SpecFail == InitFail /\ [][NextFail]_vars

\* ========================================================= cluster routing
\* One Redis engine, with Options.HashTag set or not.
InitTag ==
    /\ EnginesInit /\ CallersIdle
    /\ twin = NoTwin /\ idle = NoTime /\ fault = NoFault /\ failOpen = TRUE
    /\ b = NewBuilder /\ made = NoLimiter /\ resets = NoResets /\ StoreIdle /\ CacheIdle
    /\ hashTag \in BOOLEAN
    /\ backend = "redis"

NextTag == FailTick \/ RedisAllowNPasses

SpecTag == InitTag /\ [][NextTag]_vars

\* ============================================================ construction
\* A limiter is made by a constructor or through a Builder; a behaviour ends
\* with the limiter's construction.
Params == (0 - 1) .. Limit
Durations == (0 - UnitsPerSec) .. (WindowSecs * UnitsPerSec)

New ==
    \E a \in Algs, p1 \in Params, p2 \in Params, r \in BOOLEAN, s \in BOOLEAN :
        /\ ~made.called
        /\ made' = NewLimiter(a, p1, p2, r, s)
        /\ UNCHANGED <<config, driver, now, states, rdb, mu, pc, loc, out, twin,
                       idle, failOpen, hashTag, lc, inner, look, store, sweeper, reply, calls, fault, b, resets>>

\* Builder.FixedWindow, SlidingWindow, SlidingWindowCounter
BuilderWindow ==
    \E a \in WindowAlgs, p1 \in Params, d \in Durations :
        /\ ~made.called
        /\ b' = [b EXCEPT !.algo = a, !.p1 = p1, !.p2 = DurationSeconds(d)]
        /\ UNCHANGED <<config, driver, now, states, rdb, mu, pc, loc, out, twin,
                       idle, failOpen, hashTag, lc, inner, look, store, sweeper, reply, calls, fault, made, resets>>

\* Builder.TokenBucket, LeakyBucket, GCRA
BuilderBucket ==
    \E a \in Algs \ WindowAlgs, p1 \in Params, p2 \in Params :
        /\ ~made.called
        /\ b' = [b EXCEPT !.algo = a, !.p1 = p1, !.p2 = p2]
        /\ UNCHANGED <<config, driver, now, states, rdb, mu, pc, loc, out, twin,
                       idle, failOpen, hashTag, lc, inner, look, store, sweeper, reply, calls, fault, made, resets>>

BuilderRedis ==
    /\ ~made.called
    /\ b' = [b EXCEPT !.redis = TRUE]
    /\ UNCHANGED <<config, driver, now, states, rdb, mu, pc, loc, out, twin,
                   idle, failOpen, hashTag, lc, inner, look, store, sweeper, reply, calls, fault, made, resets>>

BuilderStore ==
    /\ ~made.called
    /\ b' = [b EXCEPT !.store = TRUE]
    /\ UNCHANGED <<config, driver, now, states, rdb, mu, pc, loc, out, twin,
                   idle, failOpen, hashTag, lc, inner, look, store, sweeper, reply, calls, fault, made, resets>>

Build ==
    /\ ~made.called
    /\ made' = BuilderBuild(b)
    /\ UNCHANGED <<config, driver, now, states, rdb, mu, pc, loc, out, twin,
                   idle, failOpen, hashTag, lc, inner, look, store, sweeper, reply, calls, fault, b, resets>>

InitNew == Init /\ alg = "fixedWindow" /\ limitFunc = NoLimitFunc

NextNew ==
    New \/ BuilderWindow \/ BuilderBucket \/ BuilderRedis \/ BuilderStore \/ Build

SpecNew == InitNew /\ [][NextNew]_vars

\* ========================================================= repeated resets
\* The pair of engines serves requests and is reset, any number of times in a
\* row.
TickReset ==
    /\ now < MaxTime
    /\ now' = now + 1
    /\ rdb' = Purge(rdb, now + 1)
    /\ resets' = [resets EXCEPT !.rdb = Purge(@, now + 1)]
    /\ UNCHANGED <<config, driver, states, mu, pc, loc, out, twin, idle, failOpen,
                   hashTag, lc, inner, look, store, sweeper, reply, calls, fault, b, made>>

AllowNReset ==
    \E key \in Keys, n \in Costs :
        LET m == MemoryAllowN(alg, states, limitFunc, key, n, now)
            r == RedisAllowN(alg, now, rdb, limitFunc, key, n, now)
        IN  /\ states' = m.states
            /\ rdb' = r.states
            /\ memRes' = m.res
            /\ redisRes' = r.res
            /\ req' = [key |-> key, n |-> n, at |-> now, afterReset |-> "no"]
            /\ resets' = NoResets
            /\ UNCHANGED <<config, now, admitted, justReset, mu, pc, loc, out, twin,
                           idle, failOpen, hashTag, lc, inner, look, store, sweeper, reply, calls, fault, b, made>>

ResetReset ==
    \E key \in Keys :
        LET ms == MemoryReset(states, key)
            rs == RedisReset(alg, rdb, key, now)
        IN  /\ states' = ms
            /\ rdb' = rs
            /\ resets' = IF resets.n = 0
                         THEN [n |-> 1, states |-> ms, rdb |-> rs,
                               had |-> states[key] # NoState /\ rdb # EmptyDb]
                         ELSE [resets EXCEPT !.n = 2]
            /\ UNCHANGED <<config, driver, now, mu, pc, loc, out, twin, idle,
                           failOpen, hashTag, lc, inner, look, store, sweeper, reply, calls, fault, b, made>>

NextReset == TickReset \/ AllowNReset \/ ResetReset

SpecReset == Init /\ [][NextReset]_vars

\* ======================================================== in-process store
\* Callers use one Store while its cleanupLoop runs beside them.
limiters == <<config, driver, states, rdb, mu, pc, loc, out, twin, idle, failOpen,
              hashTag, fault, b, made, resets>>
caches == <<lc, inner, look>>
StoreTTLs == (0 - 1) .. 1

\* a clock unit passes; every second the ticker puts a tick into ticker.C
StoreTick ==
    /\ now < MaxStoreTime
    /\ now' = now + 1
    /\ sweeper' = IF (now + 1) % Second = 0 /\ sweeper.pc # "exited"
                  THEN [sweeper EXCEPT !.tick = TRUE]
                  ELSE sweeper
    /\ UNCHANGED <<limiters, caches, store, reply, calls>>

StoreSet ==
    \E key \in Keys, ttl \in StoreTTLs :
        /\ store' = [store EXCEPT !.data = storeSet(@, key, 1, ttl, now)]
        /\ reply' = [NoReply EXCEPT !.op = "Set"]
        /\ calls' = [calls EXCEPT !.doomed[key] = FALSE]
        /\ UNCHANGED <<limiters, caches, now, sweeper>>

StoreIncrBy ==
    \E key \in Keys :
        /\ store.data[key].value < MaxN
        /\ store' = [store EXCEPT !.data = storeIncrBy(@, key, 1, now)]
        /\ reply' = [NoReply EXCEPT !.op = "IncrBy", !.value = store'.data[key].value]
        /\ calls' = [calls EXCEPT !.doomed[key] = @ /\ storeLive(store.data, key, now)]
        /\ UNCHANGED <<limiters, caches, now, sweeper>>

StoreExpire ==
    \E key \in Keys, ttl \in StoreTTLs :
        /\ store' = [store EXCEPT !.data = storeExpire(@, key, ttl, now)]
        /\ reply' = [NoReply EXCEPT !.op = "Expire"]
        /\ calls' = [calls EXCEPT !.doomed[key] =
                          IF store.data[key].present THEN ttl <= 0 ELSE @]
        /\ UNCHANGED <<limiters, caches, now, sweeper>>

StoreGet ==
    \E key \in Keys :
        LET r == storeGet(store.data, key, now)
        IN  /\ store' = [store EXCEPT !.data = r.data]
            /\ reply' = r.reply
            /\ UNCHANGED <<limiters, caches, now, sweeper, calls>>

StoreTTL ==
    \E key \in Keys :
        LET r == storeTTL(store.data, key, now)
        IN  /\ store' = [store EXCEPT !.data = r.data]
            /\ reply' = r.reply
            /\ UNCHANGED <<limiters, caches, now, sweeper, calls>>

StoreClose ==
    /\ calls.closes < MaxCloses
    /\ store' = storeClose(store)
    /\ calls' = [calls EXCEPT !.closes = @ + 1]
    /\ reply' = [NoReply EXCEPT !.op = "Close"]
    /\ UNCHANGED <<limiters, caches, now, sweeper>>

\* cleanupLoop: select takes the tick, evictExpired waits for the mutex
SweeperWake ==
    /\ sweeper.pc = "select" /\ sweeper.tick
    /\ sweeper' = [sweeper EXCEPT !.pc = "scan", !.tick = FALSE]
    /\ UNCHANGED <<limiters, caches, now, store, reply, calls>>

\* evictExpired, under the mutex
SweeperScan ==
    /\ sweeper.pc = "scan"
    /\ store' = [store EXCEPT !.data = storeEvictExpired(@, now)]
    /\ sweeper' = [sweeper EXCEPT !.pc = "select", !.late = @ \/ store.closed]
    /\ UNCHANGED <<limiters, caches, now, reply, calls>>

\* cleanupLoop: select takes the closed closeCh
SweeperExit ==
    /\ sweeper.pc = "select" /\ store.closeCh > 0
    /\ sweeper' = [sweeper EXCEPT !.pc = "exited"]
    /\ UNCHANGED <<limiters, caches, now, store, reply, calls>>

NextStore ==
    \/ StoreTick \/ StoreSet \/ StoreIncrBy \/ StoreExpire \/ StoreGet \/ StoreTTL
    \/ StoreClose \/ SweeperWake \/ SweeperScan \/ SweeperExit

InitStore == Init /\ alg = "fixedWindow" /\ limitFunc = NoLimitFunc

SpecStore == InitStore /\ [][NextStore]_vars

\* select takes a ready case at random, so a closed closeCh is taken in the end
SpecStoreLive ==
    /\ SpecStore
    /\ WF_vars(SweeperScan)
    /\ SF_vars(SweeperExit)

\* ============================================================== LocalCache
\* Two callers use one LocalCache over some Limiter while its evictionLoop
\* runs beside them.
rest == <<limiters, store, sweeper, reply, calls>>

CacheTick ==
    /\ now < MaxCacheTime
    /\ now' = now + 1
    /\ UNCHANGED <<rest, lc, inner, look>>

\* AllowN, first critical section: answer from the entry, or go to the backend
CacheLookup(c) ==
    \E key \in CacheKeys, n \in 1 .. 2 :
        /\ inner[c].pc = "idle"
        /\ look' = [NoLook EXCEPT !.done = TRUE, !.key = key, !.n = n, !.at = now,
                                  !.entry = lc[key],
                                  !.local = cacheHit(lc, key, n, now)]
        /\ IF cacheHit(lc, key, n, now)
           THEN /\ lc' = cacheServe(lc, key, n)
                /\ UNCHANGED inner
           ELSE /\ inner' = [inner EXCEPT ![c] = [NoCall EXCEPT !.pc = "inner",
                                                               !.key = key, !.n = n]]
                /\ UNCHANGED lc
        /\ UNCHANGED <<rest, now>>

\* lc.inner.AllowN, outside the mutex; an error is returned as it is
CacheInner(c) ==
    /\ inner[c].pc = "inner"
    /\ \/ \E r \in InnerResults :
              inner' = [inner EXCEPT ![c].pc = "store", ![c].result = r]
       \/ inner' = [inner EXCEPT ![c] = NoCall]
    /\ UNCHANGED <<rest, now, lc, look>>

\* AllowN, second critical section: store the Result, evictIfOverCapacity
CacheStore(c) ==
    /\ inner[c].pc = "store"
    /\ LET es == [lc EXCEPT ![inner[c].key] =
                      [present |-> TRUE, result |-> inner[c].result,
                       localUsed |-> 0, fetchedAt |-> now]]
       IN  IF cacheLen(es) <= MaxKeys
           THEN /\ lc' = es
                /\ look' = NoLook
           ELSE \E k \in cacheOldest(es) :
                    /\ lc' = [es EXCEPT ![k] = NoCacheEntry]
                    /\ look' = [NoLook EXCEPT
                                   !.evicted = TRUE,
                                   !.evictedAt = es[k].fetchedAt,
                                   !.oldestAt = CHOOSE t \in 0 .. MaxCacheTime + 1 :
                                       /\ \E j \in CacheKeys :
                                              es[j].present /\ es[j].fetchedAt = t
                                       /\ \A j \in CacheKeys :
                                              es[j].present => es[j].fetchedAt >= t]
    /\ inner' = [inner EXCEPT ![c] = NoCall]
    /\ UNCHANGED <<rest, now>>

CacheReset ==
    \E key \in CacheKeys :
        /\ lc' = [lc EXCEPT ![key] = NoCacheEntry]
        /\ UNCHANGED <<rest, now, inner, look>>

\* evictionLoop's evictExpired, under the mutex
CacheEvictExpired ==
    /\ lc' = cacheEvictExpired(lc, now)
    /\ lc' # lc
    /\ UNCHANGED <<rest, now, inner, look>>

NextCache ==
    \/ CacheTick \/ CacheReset \/ CacheEvictExpired
    \/ \E c \in CacheCallers : CacheLookup(c) \/ CacheInner(c) \/ CacheStore(c)

InitCache == Init /\ alg = "fixedWindow" /\ limitFunc = NoLimitFunc

SpecCache == InitCache /\ [][NextCache]_vars

\* =================================================================== claims
DefaultLimit(a) ==
    CASE a \in WindowAlgs -> maxRequests
      [] a = "gcra" -> burst
      [] OTHER -> capacity

RECURSIVE Units(_)
Units(adm) == IF adm = <<>> THEN 0 ELSE Head(adm)[2] + Units(Tail(adm))
\* the units admitted at instants of [lo, lo + windowDuration)
AdmittedIn(adm, lo) ==
    Units(SelectSeq(adm, LAMBDA e : lo <= e[1] /\ e[1] < lo + windowDuration))

Done == {c \in Callers : pc[c] = "done"}
Allowed == {c \in Done : out[c].allowed}
\* the limit the in-memory engine of algorithm a applies to key
EngineLimit(a, key) ==
    IF a = "fixedWindow" THEN resolveLimit(limitFunc, key, maxRequests)
    ELSE DefaultLimit(a)
\* the served calls arrived within one window; for the rate-based engines,
\* within less than the time one unit takes to refill or leak
SingleWindow ==
    \A c, d \in Done :
        IF alg \in WindowAlgs
        THEN loc[c].now - loc[d].now < windowDuration
        ELSE (loc[c].now - loc[d].now) * Rate < UnitsPerSec

\* C1: in memory, of N concurrent Allow calls on a fresh key that arrive
\* within a single window, exactly min(N, L) are allowed and max(0, N - L)
\* denied, L being the engine's limit, whatever the interleaving.
C1_ExactlyLimitAllowed ==
    backend = "memory" /\ SingleWindow =>
        /\ Cardinality(Allowed) = Min(Cardinality(Done), EngineLimit(alg, TheKey))
        /\ Cardinality(Done \ Allowed) =
               Max(0, Cardinality(Done) - EngineLimit(alg, TheKey))

C1_Witness ==
    /\ backend = "memory" /\ SingleWindow
    /\ Done = Callers
    /\ Allowed /= {} /\ Allowed /= Done
    /\ \E c, d \in Done : loc[c].now < loc[d].now

\* C2 (as claimed): sliding window log on Redis: whatever the interleaving of
\* concurrent AllowN calls on a key, the entries of the key's log that lie
\* inside the window never number more than maxRequests.
C2_LogWithinLimit ==
    backend = "redis" /\ alg = "slidingWindow" /\ Exists(rdb, FormatKey(TheKey)) =>
        Len(SelectSeq(rdb[FormatKey(TheKey)].val,
                      LAMBDA score : score > now - windowDuration)) <= maxRequests

\* C3 (as claimed): sliding window counter on Redis: a call increments the
\* current-window counter only if the estimate made from the counters as
\* they are at that moment, plus its cost, is within maxRequests.
C3_IncrementWithinEstimate ==
    [][\A c \in Callers :
          pc[c] = "incrby" /\ pc'[c] /= "incrby" =>
              swcFits(swcCount(rdb, swcPreviousKey(TheKey, Unix(loc[c].now))),
                      Unix(loc[c].now) % windowSeconds, windowSeconds,
                      swcCount(rdb, swcCurrentKey(TheKey, Unix(loc[c].now))), 1)]_vars

\* C4 (as claimed): the in-memory engine and the Redis engine, given the same
\* requests on one key at the same instants, return the same allowed/denied
\* decision for every request, whatever the algorithm.
C4_SameDecisions == memRes.allowed = redisRes.allowed

\* C5: sliding window log, in memory: over every interval of one window
\* duration the units admitted for a key since its last reset are at most
\* maxRequests.
C5_SlidingWindowBound ==
    alg = "slidingWindow" =>
        \A k \in Keys, lo \in 0 .. MaxTime : AdmittedIn(admitted[k], lo) <= maxRequests

C5_Witness ==
    /\ alg = "slidingWindow"
    /\ memRes.served /\ ~memRes.allowed /\ req.n = 1
    /\ \E k \in Keys :
          /\ Len(admitted[k]) >= 2
          /\ admitted[k][1][1] < admitted[k][Len(admitted[k])][1]
          /\ \E lo \in 0 .. MaxTime : AdmittedIn(admitted[k], lo) = maxRequests

\* C6: fixed window, in memory: over every interval of one window duration
\* the units admitted for a key since its last reset are at most twice the
\* key's limit.
C6_FixedWindowBound ==
    alg = "fixedWindow" =>
        \A k \in Keys, lo \in 0 .. MaxTime :
            AdmittedIn(admitted[k], lo) <= 2 * resolveLimit(limitFunc, k, maxRequests)

C6_Witness ==
    /\ alg = "fixedWindow"
    /\ \E k \in Keys, lo \in 0 .. MaxTime :
          AdmittedIn(admitted[k], lo) = 2 * resolveLimit(limitFunc, k, maxRequests)

\* C7: in both variants of every engine, an AllowN(k, n) with 1 <= n <= limit
\* that directly follows Reset(k) is allowed.
C7_ResetThenAllowed ==
    req.afterReset /= "no" /\ req.n >= 1 =>
        /\ req.n <= memRes.limit => memRes.allowed
        /\ req.n <= redisRes.limit => redisRes.allowed

C7_Witness ==
    /\ req.afterReset = "afterDenial"
    /\ req.n = memRes.limit /\ req.n = redisRes.limit
    /\ memRes.allowed /\ redisRes.allowed

\* C8 (as claimed): every engine decides against LimitFunc(key) when that is
\* positive and against the construction-time default otherwise, and reports
\* that limit in the decision.
C8_HonorsLimitFunc ==
    memRes.served =>
        /\ memRes.limit = resolveLimit(limitFunc, req.key, DefaultLimit(alg))
        /\ redisRes.limit = resolveLimit(limitFunc, req.key, DefaultLimit(alg))

\* C9: every decision for a request of n >= 1 units has
\* 0 <= remaining <= limit, in both variants of every engine.
C9_RemainingInRange ==
    memRes.served /\ req.n >= 1 =>
        /\ 0 <= memRes.remaining /\ memRes.remaining <= memRes.limit
        /\ 0 <= redisRes.remaining /\ redisRes.remaining <= redisRes.limit

C9_Witness ==
    /\ req.n = 1 /\ req.at > 0
    /\ memRes.allowed /\ memRes.remaining = memRes.limit - 1
    /\ redisRes.allowed /\ redisRes.remaining = redisRes.limit - 1

\* C10: an allowed decision that carries a positive retry_after comes from
\* the shaping leaky bucket; from every other engine, in either variant, an
\* allowed decision has retry_after = 0.
C10_AllowedRetryAfter ==
    /\ memRes.served /\ memRes.allowed /\ memRes.retryAfter /= 0 => alg = "leakyShaping"
    /\ redisRes.served /\ redisRes.allowed /\ redisRes.retryAfter /= 0 => alg = "leakyShaping"

C10_Witness ==
    /\ memRes.allowed /\ memRes.retryAfter > 0
    /\ redisRes.allowed /\ redisRes.retryAfter > 0

\* C11 (as claimed): a request for more than the limit is denied by both
\* variants of every engine, and every later request within the limit is
\* decided as it is by engines that never got the oversized requests.
C11_OversizedLeavesNoTrace ==
    memRes.served =>
        IF req.n > memRes.limit
        THEN ~memRes.allowed /\ ~redisRes.allowed
        ELSE /\ memRes.allowed = twin.memRes.allowed
             /\ redisRes.allowed = twin.redisRes.allowed

\* C11: a request for more than the limit is denied by both variants of
\* every engine.  Every later request within the limit is decided as it is
\* by engines that never got the oversized requests, in every Redis variant
\* and in every in-memory variant but the fixed window and the sliding window
\* counter, where a denied request still starts or rolls the key's window.
C11_OversizedDeniedApart ==
    memRes.served =>
        IF req.n > memRes.limit
        THEN ~memRes.allowed /\ ~redisRes.allowed
        ELSE /\ redisRes.allowed = twin.redisRes.allowed
             /\ alg \notin {"fixedWindow", "slidingWindowCounter"} =>
                    memRes.allowed = twin.memRes.allowed

C11_Witness ==
    /\ alg = "tokenBucket"
    /\ twin.skipped
    /\ req.n >= 1 /\ req.n <= memRes.limit
    /\ ~memRes.allowed /\ ~twin.memRes.allowed
    /\ ~redisRes.allowed /\ ~twin.redisRes.allowed

\* C12 (as claimed): AllowN(k, 0) is allowed by both variants of every engine
\* and leaves the key's record as it was: the in-memory state and the value
\* stored on Redis (its TTL left aside) are the same before and after the call.
C12_ZeroCostNoMutation ==
    [][now' = now /\ req'.n = 0 /\ memRes'.served /\ justReset'[req'.key] = "no" =>
           /\ memRes'.allowed /\ redisRes'.allowed
           /\ states' = states
           /\ [k \in DOMAIN rdb' |-> rdb'[k].val] = [k \in DOMAIN rdb |-> rdb[k].val]]_vars

\* the last request got the decision a freshly constructed engine pair gives it
AsFresh ==
    LET m == MemoryAllowN(alg, [k \in Keys |-> NoState], limitFunc,
                          req.key, req.n, req.at).res
        r == RedisAllowN(alg, req.at, EmptyDb, limitFunc, req.key, req.n, req.at).res
    IN  /\ memRes.allowed = m.allowed
        /\ memRes.remaining = m.remaining
        /\ redisRes.allowed = r.allowed
        /\ redisRes.remaining = r.remaining

\* C13 (as claimed): fixed window and sliding window counter: the first
\* request after a window duration without requests gets the decision
\* (allowed and remaining) a fresh engine gives it.
C13_IdleWindowAsFresh ==
    alg \in {"fixedWindow", "slidingWindowCounter"} /\ idle >= windowDuration => AsFresh

\* C13: the first request after an idle time gets the decision a fresh
\* engine gives it: after one window duration for the fixed window, after
\* two window durations for the sliding window counter.
C13_IdleAsFresh ==
    /\ alg = "fixedWindow" /\ idle >= windowDuration => AsFresh
    /\ alg = "slidingWindowCounter" /\ idle >= 2 * windowDuration => AsFresh

C13_Witness ==
    /\ alg = "fixedWindow"
    /\ idle = windowDuration
    /\ req.n = memRes.limit
    /\ memRes.allowed /\ redisRes.allowed
    /\ memRes.remaining = 0

\* C14: with equal capacity and equal rate, the token bucket and the
\* policing leaky bucket give every request of a sequence of AllowN calls on
\* a key, from fresh state, the same allowed/denied decision, in memory and
\* on Redis.
C14_TokenBucketAsPolicing ==
    /\ memRes.allowed = twin.memRes.allowed
    /\ redisRes.allowed = twin.redisRes.allowed

C14_Witness ==
    /\ req.at > 0 /\ req.n = 1
    /\ ~memRes.allowed /\ ~twin.memRes.allowed
    /\ ~redisRes.allowed /\ ~twin.redisRes.allowed

\* C15 (as claimed): when a command of a Redis AllowN fails with a transient
\* or deadline error, FailOpen fixes the outcome: allowed, remaining =
\* limit - 1, no retry_after and no error if it is set; denied, remaining = 0,
\* no retry_after and the store's error if it is not.
C15_FailOpenFixesOutcome ==
    fault.hit /\ fault.kind \in {"transient", "deadline"} =>
        IF failOpen
        THEN /\ redisRes.allowed /\ redisRes.remaining = redisRes.limit - 1
             /\ redisRes.retryAfter = 0 /\ fault.err = "nil"
        ELSE /\ ~redisRes.allowed /\ redisRes.remaining = 0
             /\ redisRes.retryAfter = 0 /\ fault.err = fault.kind

\* C16 (as claimed): a semantic error of the backend during AllowN is
\* returned to the caller, whatever FailOpen is.
C16_SemanticErrorSurfaced ==
    fault.hit /\ fault.kind = "semantic" => fault.err = "semantic"

\* C17 (as claimed): with HashTag set, every key a Redis engine writes wraps
\* the user key in braces, <prefix>:{<k>}[:<suffix>], so that the keys of one
\* caller carry the same tag.
C17_KeysCarryHashTag ==
    hashTag =>
        \A fk \in DOMAIN rdb :
            \E k \in Keys : /\ Len(fk) >= 4
                            /\ SubSeq(fk, 1, 4) = <<KeyPrefix, ":{", k, "}">>

\* C18 (as claimed): a limiter made with a custom store keeps its state in
\* that store, also when a Redis client is configured as well; it is local-only
\* only when neither is configured.
C18_StoreTakesPrecedence ==
    made.called /\ ~made.err =>
        /\ made.store => made.engine = "store"
        /\ made.engine = "memory" <=> ~made.store /\ ~made.redis

C19_ResetIdempotent ==
    resets.n = 2 => states = resets.states /\ rdb = resets.rdb

C19_Witness ==
    resets.n = 2 /\ resets.had /\ alg = "slidingWindowCounter"

C22_NonPositiveExpireEvicts ==
    \A k \in Keys :
        calls.doomed[k] =>
            /\ reply.op = "Get" => reply.err = "ErrKeyNotFound"
            /\ reply.op = "TTL" => reply.ttl = TTLAbsent

\* C23 (as claimed): once the in-process store is closed its sweeper never
\* runs another eviction scan.
C23_NoScanAfterClose ==
    ~sweeper.late

\* C23 (amended): after Close the sweeper terminates in the end and stays
\* terminated; a scan it had already woken for, or a tick select takes before
\* the closed channel, may still run after Close.
C23_SweeperTerminates ==
    calls.closes > 0 ~> [](sweeper.pc = "exited")

C23_Witness ==
    store.closed /\ sweeper.pc = "exited" /\ sweeper.late

\* C24: Close is idempotent: however many Close calls are made, beside each
\* other and beside the sweeper, closeCh is closed exactly once.
C24_CloseOnce ==
    /\ store.closeCh <= 1
    /\ calls.closes > 0 => store.closed /\ store.closeCh = 1

C24_Witness ==
    calls.closes >= 2 /\ store.closed /\ store.closeCh = 1

\* C25: LocalCache.AllowN goes to the backend iff the key has no unexpired
\* entry, or the entry is an allow whose Remaining less the units served
\* locally is below n; otherwise it answers locally.
C25_BackendIffNoQuota ==
    look.done =>
        (~look.local <=>
            \/ ~look.entry.present
            \/ look.at - look.entry.fetchedAt >=
                   (IF ~look.entry.result.allowed /\ look.entry.result.retryAfter > 0
                       /\ look.entry.result.retryAfter < CacheTTL
                    THEN look.entry.result.retryAfter ELSE CacheTTL)
            \/ /\ look.entry.result.allowed
               /\ look.entry.result.remaining - look.entry.localUsed < look.n)

C25_Witness ==
    /\ look.done /\ ~look.local /\ look.entry.present /\ look.entry.result.allowed
    /\ look.at - look.entry.fetchedAt < CacheTTL
    /\ look.entry.localUsed > 0

C28_Count(key, t) ==
    IF states[key] = NoState \/ t - states[key].windowStart >= windowDuration
    THEN 0
    ELSE states[key].requests

\* C28: the in-memory fixed window first resets the counter to 0 when
\* now - window_start >= window_duration; a request of cost n is then allowed
\* iff count + n <= limit; an allowed request raises the counter by exactly n
\* and reports remaining = limit - counter, a denied one leaves the counter
\* alone; so the units admitted in the running window equal the counter and
\* never exceed the limit.
C28_FixedWindowCounts ==
    /\ [][alg = "fixedWindow" /\ FixedWindowAllowN =>
            LET key == req'.key
                n == req'.n
                limit == memRes'.limit
                count == C28_Count(key, now)
            IN  /\ memRes'.allowed <=> count + n <= limit
                /\ memRes'.allowed =>
                       /\ states'[key].requests = count + n
                       /\ memRes'.remaining = limit - states'[key].requests
                /\ ~memRes'.allowed => states'[key].requests = count]_vars
    /\ [](alg = "fixedWindow" =>
            \A key \in Keys :
                states[key] /= NoState /\ now - states[key].windowStart < windowDuration =>
                    /\ AdmittedIn(admitted[key], states[key].windowStart) = states[key].requests
                    /\ states[key].requests <= EngineLimit("fixedWindow", key))

\* a request admitted into a window begun at this very instant, one unit after
\* an admission into the window before it
C28_Witness ==
    /\ alg = "fixedWindow" /\ memRes.served /\ memRes.allowed
    /\ req.at = now /\ req.n = memRes.limit
    /\ states[req.key] /= NoState
    /\ states[req.key].windowStart = now
    /\ states[req.key].requests = req.n
    /\ \E i \in 1 .. Len(admitted[req.key]) : admitted[req.key][i][1] = now - 1

\* the record the in-memory sliding window counter decides on at instant t:
\* its current and previous counters once the windows that have run out are
\* shifted
C29_Counters(key, t) ==
    IF states[key] = NoState
    THEN [windowStart |-> t, previousCount |-> 0, currentCount |-> 0]
    ELSE swcAdvance(states[key], t)

\* C29: the in-memory sliding window counter allows a request of cost n iff
\* previous_count * (1 - elapsed_fraction) + current_count + n <= limit, with
\* elapsed_fraction = (now mod W) / W the position of now in the window of its
\* absolute index; an allowed request raises the current counter alone, by
\* exactly n. (Both sides of the comparison are multiplied by W.)
C29_WeightedByAbsoluteWindow ==
    [][SlidingWindowCounterAllowN =>
          LET key == req'.key
              n == req'.n
              c == C29_Counters(key, now)
              elapsed == now % windowDuration
              fits == c.previousCount * (windowDuration - elapsed)
                          + (c.currentCount + n) * windowDuration
                      <= memRes'.limit * windowDuration
          IN  /\ memRes'.allowed <=> fits
              /\ memRes'.allowed =>
                     /\ states'[key].currentCount = c.currentCount + n
                     /\ states'[key].previousCount = c.previousCount]_vars

\* the entries of a sliding window log that are younger than one window at
\* instant t
C30_Younger(ts, t) == SelectSeq(ts, LAMBDA e : t - e < windowDuration)

\* C30: the sliding window log counts only the timestamps whose age is
\* strictly below the window duration: in both variants a request of cost n is
\* decided against the number of such entries, and no entry aged one window or
\* more is left in the log after the call.
C30_ExactAgeEvicted ==
    [][SlidingWindowAllowN =>
          LET key == req'.key
              n == req'.n
              fullKey == FormatKey(key)
              mem == IF states[key] = NoState THEN <<>> ELSE states[key].timestamps
              red == IF Exists(rdb, fullKey) THEN rdb[fullKey].val ELSE <<>>
              redAfter == IF Exists(rdb', fullKey) THEN rdb'[fullKey].val ELSE <<>>
          IN  /\ memRes'.allowed <=> Len(C30_Younger(mem, now)) + n <= memRes'.limit
              /\ redisRes'.allowed <=> Len(C30_Younger(red, now)) + n <= redisRes'.limit
              /\ C30_Younger(states'[key].timestamps, now) = states'[key].timestamps
              /\ C30_Younger(redAfter, now) = redAfter]_vars

\* C31: whatever AllowN and Reset calls were made at whatever instants, the
\* token count the in-memory token bucket stores for a key lies in 0 .. C
\* (tokens are kept multiplied by UnitsPerSec).
C31_TokensInRange ==
    alg = "tokenBucket" =>
        \A key \in Keys :
            states[key] /= NoState =>
                /\ 0 <= states[key].tokens
                /\ states[key].tokens <= capacity * UnitsPerSec

\* a request for the whole capacity, admitted after time has passed, empties
\* the bucket
C31_Witness ==
    /\ alg = "tokenBucket" /\ memRes.served /\ memRes.allowed
    /\ req.n = capacity /\ req.at = now /\ now > 0
    /\ states[req.key] /= NoState
    /\ states[req.key].tokens = 0

\* the tokens (multiplied by UnitsPerSec) the token bucket holds for key at
\* instant t after its refill: a full bucket for a key without a record
C32_Tokens(key, t) ==
    IF states[key] = NoState
    THEN capacity * UnitsPerSec
    ELSE Min(capacity * UnitsPerSec,
             states[key].tokens + (t - states[key].lastRefill) * refillRate)

\* C32: the in-memory token bucket starts a key with a full bucket; after the
\* refill a request of cost n is allowed iff tokens >= n and then takes
\* exactly n tokens; otherwise it is denied with retry_after =
\* ceil((n - tokens) / R) seconds and takes nothing.
C32_TokenBucketDecides ==
    [][alg = "tokenBucket" /\ TokenBucketAllowN =>
          LET key == req'.key
              cost == req'.n * UnitsPerSec
              tokens == C32_Tokens(key, now)
          IN  /\ memRes'.allowed <=> tokens >= cost
              /\ memRes'.allowed => states'[key].tokens = tokens - cost
              /\ ~memRes'.allowed =>
                     /\ states'[key].tokens = tokens
                     /\ memRes'.retryAfter =
                            Secs(Ceil(cost - tokens, refillRate * UnitsPerSec))]_vars

\* single requests made back to back on a fresh key: C of them were admitted
\* at this instant and the next one is denied
C32_Witness ==
    /\ alg = "tokenBucket" /\ memRes.served /\ ~memRes.allowed
    /\ req.n = 1 /\ req.at = now
    /\ Len(admitted[req.key]) = capacity
    /\ \A i \in 1 .. Len(admitted[req.key]) : admitted[req.key][i] = <<now, 1>>
    /\ memRes.retryAfter = Secs(Ceil(1, refillRate))

\* the instant the shaping leaky bucket holds as next_free for key, clamped up
\* to instant t
C33_NextFree(key, t) ==
    IF states[key] = NoState THEN t ELSE Max(t, states[key].nextFree)

\* C33: with next_free first clamped up to now, the in-memory shaping leaky
\* bucket admits a request of cost n iff (next_free - now) * L + n <= C; an
\* admitted request reports retry_after = next_free - now as it was before
\* the advance and moves next_free on by n / L; a rejected request reports
\* retry_after = 0.
C33_ShapingDecides ==
    [][alg = "leakyShaping" /\ LeakyBucketShapingAllowN =>
          LET key == req'.key
              n == req'.n
              nextFree == C33_NextFree(key, now)
              fits == (nextFree - now) * leakRate + n * UnitsPerSec
                          <= capacity * UnitsPerSec
          IN  /\ memRes'.allowed <=> fits
              /\ memRes'.allowed =>
                     /\ memRes'.retryAfter = Millis(nextFree - now)
                     /\ states'[key].nextFree * leakRate
                            = nextFree * leakRate + n * UnitsPerSec
              /\ ~memRes'.allowed => memRes'.retryAfter = 0]_vars

\* the second of two unit requests made back to back on a fresh key is
\* admitted with the delay 1 / L
C33_Witness ==
    /\ alg = "leakyShaping" /\ memRes.served /\ memRes.allowed
    /\ req.n = 1 /\ req.at = now
    /\ admitted[req.key] = <<(<<now, 1>>), (<<now, 1>>)>>
    /\ memRes.retryAfter = Millis(UnitsPerSec \div leakRate)
    /\ memRes.retryAfter > 0

\* the theoretical arrival time GCRA works from for key at instant t
C34_Tat(key, t) == IF states[key] = NoState THEN t ELSE Max(t, states[key].tat)

\* C34: in-memory GCRA admits a request of cost n iff
\* max(stored_tat, now) + n * emission_interval - now
\*     <= burst_allowance + emission_interval,
\* equality included, and an admitted request stores the new TAT; hence the
\* units admitted for a key at one instant never exceed burst.
C34_GcraDecides ==
    /\ [][alg = "gcra" /\ GCRAAllowN =>
            LET key == req'.key
                n == req'.n
                diff == C34_Tat(key, now) + n * emissionInterval - now
            IN  /\ memRes'.allowed <=> diff <= burstAllowance + emissionInterval
                /\ memRes'.allowed => states'[key].tat = now + diff]_vars
    /\ [](alg = "gcra" =>
            \A key \in Keys :
                Units(SelectSeq(admitted[key], LAMBDA e : e[1] = now)) <= burst)

\* on a key without a record, burst unit requests were admitted at this
\* instant, the last of them exactly at the boundary, and the next one is
\* denied with remaining = 0 and a positive retry_after
C34_Witness ==
    /\ alg = "gcra" /\ memRes.served /\ ~memRes.allowed
    /\ req.n = 1 /\ req.at = now
    /\ Len(admitted[req.key]) = burst
    /\ \A i \in 1 .. Len(admitted[req.key]) : admitted[req.key][i] = <<now, 1>>
    /\ states[req.key].tat - now = burstAllowance + emissionInterval
    /\ memRes.remaining = 0 /\ memRes.retryAfter > 0

\* =================================== idle records of the in-memory engines
\* The engines the claim names serve requests while the clock advances.  The
\* clock advances on its own; callers are not obliged to call again, and no
\* engine starts a goroutine beside its callers.
NextRetain == Tick \/ FixedWindowAllowN \/ TokenBucketAllowN \/ GCRAAllowN

SpecRetain == Init /\ [][NextRetain]_vars /\ WF_vars(Tick)

\* the record of key has not been touched at this instant and is past its
\* semantic TTL: the window has run out, the bucket has refilled to the full,
\* the theoretical arrival time has passed
C35_Elapsed(key) ==
    /\ states[key] /= NoState
    /\ req.at < now
    /\ CASE alg = "fixedWindow" ->
                now - states[key].windowStart >= windowDuration
         [] alg = "tokenBucket" ->
                states[key].tokens + (now - states[key].lastRefill) * refillRate
                    >= capacity * UnitsPerSec
         [] alg = "gcra" -> states[key].tat <= now
         [] OTHER -> FALSE

\* C35: in local mode a record whose semantic TTL has elapsed without writes
\* is eventually evicted: no record stays in the engine's key-to-state map
\* past its semantic TTL for ever.
C35_IdleRecordEvicted ==
    \A key \in Keys : []<>(~C35_Elapsed(key))

\* ======================================================= denied requests
\* The driver of Spec with the default limit or a resolver returning 1.
InitDeny == Init /\ (limitFunc.isNil \/ limitFunc.fn = [k \in Keys |-> 1])

SpecDeny == InitDeny /\ [][Next]_vars

\* C36: a denied AllowN of an in-memory engine takes no quota: whatever
\* request follows on that key at the same instant gets the decision it
\* would get had the denied request not been made.  (The steps that leave
\* the clock alone and the key not just reset are the AllowN steps.)
C36_DenialTakesNothing ==
    [][now' = now /\ memRes'.served /\ ~memRes'.allowed
           /\ justReset'[req'.key] = "no" =>
          \A n \in Costs :
              MemoryAllowN(alg, states', limitFunc, req'.key, n, now).res
                  = MemoryAllowN(alg, states, limitFunc, req'.key, n, now).res]_vars

\* a request within the limit was denied on a key that holds quota taken at
\* least one clock unit earlier, and the denial rewrote the key's record
C36_Witness ==
    /\ memRes.served /\ ~memRes.allowed
    /\ req.at = now /\ req.n >= 1 /\ req.n <= memRes.limit
    /\ alg = "tokenBucket"
    /\ states[req.key] /= NoState
    /\ states[req.key].lastRefill = now
    /\ states[req.key].tokens > 0
    /\ \E i \in 1 .. Len(admitted[req.key]) : admitted[req.key][i][1] < now

\* ================================================== two keys on one engine
\* One engine pair serves two keys: AllowN and Reset calls on either key in
\* any order while the clock advances.  Every call runs under the engine's
\* mutex (in memory) or touches only the storage keys formatted from its own
\* key (Redis), so calls interleave as whole steps.
IsoKeys == {"k1", "k2"}
\* the costs asked for: one unit, or the whole default limit
IsoCosts == {1, Limit}

IsoLimitFuncs ==
    {[isNil |-> TRUE, fn |-> [k \in IsoKeys |-> 0]],
     [isNil |-> FALSE, fn |-> [k \in IsoKeys |-> IF k = "k1" THEN 1 ELSE Limit + 1]]}

InitIso ==
    /\ alg \in Algs
    /\ limitFunc \in IsoLimitFuncs
    /\ now = 0
    /\ states = [k \in IsoKeys |-> NoState]
    /\ rdb = EmptyDb
    /\ req = NoReq
    /\ memRes = NoRes
    /\ redisRes = NoRes
    /\ admitted = [k \in Keys |-> <<>>]
    /\ justReset = [k \in Keys |-> "no"]
    /\ CallersIdle /\ AuxIdle /\ backend = "both"

IsoTick ==
    /\ now < MaxIsoTime
    /\ now' = now + 1
    /\ rdb' = Purge(rdb, now + 1)
    /\ UNCHANGED <<aux, alg, limitFunc, states, req, memRes, redisRes, admitted,
                   justReset, backend, mu, pc, loc, out>>

IsoAllowN ==
    \E key \in IsoKeys, n \in IsoCosts :
        LET m == MemoryAllowN(alg, states, limitFunc, key, n, now)
            r == RedisAllowN(alg, now, rdb, limitFunc, key, n, now)
        IN  /\ states' = m.states
            /\ rdb' = r.states
            /\ memRes' = m.res
            /\ redisRes' = r.res
            /\ req' = [key |-> key, n |-> n, at |-> now, afterReset |-> "no"]
            /\ UNCHANGED <<aux, alg, limitFunc, now, admitted, justReset, backend,
                           mu, pc, loc, out>>

IsoReset ==
    \E key \in IsoKeys :
        /\ states' = MemoryReset(states, key)
        /\ rdb' = RedisReset(alg, rdb, key, now)
        /\ req' = [key |-> key, n |-> 0, at |-> now, afterReset |-> "yes"]
        /\ memRes' = NoRes
        /\ redisRes' = NoRes
        /\ UNCHANGED <<aux, alg, limitFunc, now, admitted, justReset, backend,
                       mu, pc, loc, out>>

NextIso == IsoTick \/ IsoAllowN \/ IsoReset

SpecIso == InitIso /\ [][NextIso]_vars

\* the decisions both variants give a request of cost n on key at this instant
\* from the records st and db
C37_Decisions(st, db, key, n) ==
    <<MemoryAllowN(alg, st, limitFunc, key, n, now).res,
      RedisAllowN(alg, now, db, limitFunc, key, n, now).res>>

\* C37: an AllowN or a Reset on one key leaves the record the in-memory
\* engine holds for the other key as it was, and leaves the decision either
\* variant gives any request on the other key as it was.
C37_KeysIsolated ==
    [][now' = now =>
          \A other \in IsoKeys \ {req'.key} :
              /\ states'[other] = states[other]
              /\ \A n \in IsoCosts :
                     C37_Decisions(states', rdb', other, n)
                         = C37_Decisions(states, rdb, other, n)]_vars

\* the whole limit is admitted on k2 while k1, with a record of its own, is
\* denied a unit request by both variants
C37_Witness ==
    /\ req.key = "k2" /\ req.n >= 1 /\ req.n = memRes.limit /\ req.at = now
    /\ memRes.served /\ memRes.allowed /\ redisRes.allowed
    /\ states["k1"] /= NoState
    /\ ~C37_Decisions(states, rdb, "k1", 1)[1].allowed
    /\ ~C37_Decisions(states, rdb, "k1", 1)[2].allowed

\* ============================== LocalCache in front of an in-memory engine
\* cache.New(limiter): the LocalCache of the cache specification with the
\* in-memory fixed window as its backend, serving one key.  admitted collects
\* the units of every request LocalCache.AllowN reports as allowed, whether
\* the backend or the cache entry answered it.
wrapped == <<config, req, memRes, redisRes, justReset, rdb, mu, pc, loc, out, twin,
             idle, failOpen, hashTag, fault, b, made, resets, store, sweeper,
             reply, calls, look>>

\* a Result of the engine as the cache keeps it, RetryAfter in clock units
WrapResult(res) ==
    [allowed |-> res.allowed, remaining |-> res.remaining,
     retryAfter |-> (res.retryAfter * UnitsPerSec) \div 1000]

\* AllowN, first critical section
WrapLookup(c) ==
    \E n \in 1 .. 2 :
        /\ inner[c].pc = "idle"
        /\ IF cacheHit(lc, TheKey, n, now)
           THEN /\ lc' = cacheServe(lc, TheKey, n)
                /\ admitted' = IF lc[TheKey].result.allowed
                               THEN [admitted EXCEPT ![TheKey] = Append(@, <<now, n>>)]
                               ELSE admitted
                /\ UNCHANGED inner
           ELSE /\ inner' = [inner EXCEPT ![c] = [NoCall EXCEPT !.pc = "inner",
                                                               !.key = TheKey, !.n = n]]
                /\ UNCHANGED <<lc, admitted>>
        /\ UNCHANGED <<wrapped, now, states>>

\* lc.inner.AllowN: the fixed window decides and charges the request
WrapInner(c) ==
    /\ inner[c].pc = "inner"
    /\ LET m == fixedWindowMemoryAllowN(states, limitFunc, inner[c].key, inner[c].n, now)
       IN  /\ states' = m.states
           /\ inner' = [inner EXCEPT ![c].pc = "store", ![c].result = WrapResult(m.res)]
           /\ admitted' = IF m.res.allowed
                          THEN [admitted EXCEPT ![inner[c].key] =
                                    Append(@, <<now, inner[c].n>>)]
                          ELSE admitted
    /\ UNCHANGED <<wrapped, now, lc>>

\* AllowN, second critical section
WrapStore(c) ==
    /\ inner[c].pc = "store"
    /\ LET es == [lc EXCEPT ![inner[c].key] =
                      [present |-> TRUE, result |-> inner[c].result,
                       localUsed |-> 0, fetchedAt |-> now]]
       IN  lc' \in IF cacheLen(es) <= MaxKeys
                   THEN {es}
                   ELSE {[es EXCEPT ![k] = NoCacheEntry] : k \in cacheOldest(es)}
    /\ inner' = [inner EXCEPT ![c] = NoCall]
    /\ UNCHANGED <<wrapped, now, states, admitted>>

NextWrap ==
    \/ CacheTick \/ CacheEvictExpired
    \/ \E c \in CacheCallers : WrapLookup(c) \/ WrapInner(c) \/ WrapStore(c)

SpecWrap == InitCache /\ [][NextWrap]_vars

\* C38: a LocalCache in front of an engine keeps the engine's bound: the
\* units it reports as allowed for a key within one window of the backend,
\* served by the backend or from the cache, never exceed the backend's limit.
C38_WrappedWithinLimit ==
    states[TheKey] /= NoState /\ now - states[TheKey].windowStart < windowDuration =>
        AdmittedIn(admitted[TheKey], states[TheKey].windowStart) <= maxRequests

\* the units admitted for key at the instants of [lo, hi]
C39_AdmittedBetween(key, lo, hi) ==
    Units(SelectSeq(admitted[key], LAMBDA e : lo <= e[1] /\ e[1] <= hi))

ZSetTTLs == 1 .. Second

\* the sorted set of key is one an Expire applies to: it has members and no
\* TTL given to it has run out
ZSetLive(key) ==
    /\ store.sorted[key] /= <<>>
    /\ calls.zdue[key] = NoTime \/ now <= calls.zdue[key]

\* a member added after the TTL ran out starts a set without a TTL
ZSetDueAfterAdd(key) ==
    IF calls.zdue[key] /= NoTime /\ now > calls.zdue[key] THEN NoTime ELSE calls.zdue[key]

ZSetZAdd ==
    \E key \in Keys :
        /\ Len(store.sorted[key]) < MaxN
        /\ store' = [store EXCEPT !.sorted = storeZAdd(@, key, now)]
        /\ reply' = [NoReply EXCEPT !.op = "ZAdd"]
        /\ calls' = [calls EXCEPT !.zdue[key] = ZSetDueAfterAdd(key)]
        /\ UNCHANGED <<limiters, caches, now, sweeper>>

ZSetExpire ==
    \E key \in Keys, ttl \in ZSetTTLs :
        /\ store' = [store EXCEPT !.data = storeExpire(@, key, ttl, now)]
        /\ reply' = [NoReply EXCEPT !.op = "Expire"]
        /\ calls' = [calls EXCEPT !.zdue[key] = IF ZSetLive(key) THEN now + ttl ELSE @]
        /\ UNCHANGED <<limiters, caches, now, sweeper>>

\* memoryPipeline.Exec runs the queued ZAdd and Expire in order, each under
\* the mutex; the sweeper's scan leaves the sorted map alone, so it makes no
\* difference whether it runs between the two or before them
ZSetPipeline ==
    \E key \in Keys, ttl \in ZSetTTLs :
        /\ Len(store.sorted[key]) < MaxN
        /\ store' = [store EXCEPT !.sorted = storeZAdd(@, key, now),
                                  !.data = storeExpire(@, key, ttl, now)]
        /\ reply' = [NoReply EXCEPT !.op = "Exec"]
        /\ calls' = [calls EXCEPT !.zdue[key] = now + ttl]
        /\ UNCHANGED <<limiters, caches, now, sweeper>>

ZSetZCard ==
    \E key \in Keys :
        /\ reply' = [NoReply EXCEPT !.op = "ZCard",
                                    !.value = storeZCard(store.sorted, key)]
        /\ UNCHANGED <<limiters, caches, now, sweeper, store, calls>>

NextZSet ==
    \/ StoreTick \/ ZSetZAdd \/ ZSetExpire \/ ZSetPipeline \/ ZSetZCard
    \/ SweeperWake \/ SweeperScan

SpecZSet == InitStore /\ [][NextZSet]_vars

\* C40: a TTL applies to a sorted-set key of the in-process store as to a
\* plain key: after zadd(k, ...) and expire(k, ttl) with ttl > 0, directly or
\* through a pipeline, a zcard(k) made once ttl has elapsed returns 0, and
\* whenever the sweeper has scanned after that instant the set is gone.
C40_SortedSetExpires ==
    [][/\ ZSetZCard =>
              \A key \in Keys :
                  calls.zdue[key] /= NoTime /\ now > calls.zdue[key] => reply'.value = 0
       /\ SweeperScan =>
              \A key \in Keys :
                  calls.zdue[key] /= NoTime /\ now > calls.zdue[key] =>
                      store'.sorted[key] = <<>>]_vars

=============================================================================
